---- MODULE Spec2Model ----
(***************************************************************************)
(* protectSUS: the iterative fix-refinement pipeline.                      *)
(*                                                                         *)
(* The model covers the persisted collections (analyses, fix_patterns,     *)
(* user_feedback), the pull requests of the repository host, the Celery    *)
(* job queue and the workers that run the approval, denial, regeneration   *)
(* and initial-analysis jobs.  A job is a sequence of steps, cut where it  *)
(* reads or writes state it shares with the other jobs, so jobs interleave *)
(* at the awaits where the order matters.                                  *)
(***************************************************************************)
EXTENDS Integers, Sequences, FiniteSets, TLC

VARIABLES
    analyses,   \* db.analyses: sequence of documents, the id is the index
    prs,        \* pull requests of the host repository, the number is the index
    patterns,   \* db.fix_patterns: sequence of FixPattern documents
    feedback,   \* db.user_feedback: sequence of FeedbackRecords
    queue,      \* Celery queue: the bag of jobs enqueued and not yet started
    ncommands,  \* number of comment commands received so far
    wk,         \* the workers: the job each one runs, its position and locals
    done,       \* the bag of outcome records of the finished jobs
    calls,      \* direct calls of the Pattern Store issued so far
    models      \* the directory models/: rl_model.pkl and scaler.pkl

vars ==
    <<analyses, prs, patterns, feedback, queue, ncommands, wk, done, calls,
      models>>

----------------------------------------------------------------------------
(* Bounds of the model *)

MaxTriggers == 1
MaxComments == 3
MaxStores == 3
MaxApiFeedback == 1
MaxRequests == 3
MaxLimit == 3
MaxFeedback == 11
MaxWords == 3

(* Program constant: PRWorkflowService.MAX_ITERATIONS *)
MAX_ITERATIONS == 3

\* update_model_with_feedback: the number of FeedbackRecords below which it
\* does not train
MIN_FEEDBACK == 10

WorkerOrder == <<"w1", "w2">>
Workers == {WorkerOrder[k] : k \in DOMAIN WorkerOrder}
Collaborators == {"alice"}
Users == {"alice", "mallory"}
Texts == {"breaks production api"}
Commits == {"c1"}

Range(f) == {f[i] : i \in DOMAIN f}

\* Bags as functions from the elements to their positive counts
EmptyBag == <<>>
BagAdd(b, e) ==
    IF e \in DOMAIN b THEN [b EXCEPT ![e] = @ + 1] ELSE b @@ (e :> 1)
BagRemove(b, e) ==
    IF b[e] > 1 THEN [b EXCEPT ![e] = @ - 1]
    ELSE [x \in DOMAIN b \ {e} |-> b[x]]
BagCount(b, e) == IF e \in DOMAIN b THEN b[e] ELSE 0

----------------------------------------------------------------------------
(* Paths and the file extension, Path(file_path).suffix or "unknown" *)

PathA == <<"a", ".", "p", "y">>
PathB == <<"d", "/", "b", ".", "p", "y">>
PathJ == <<"x", ".", "j", "s">>
PathM == <<"M", "a", "k", "e">>
PathH == <<".", "e", "n", "v">>
Paths == {PathA, PathB, PathJ, PathM, PathH}

RECURSIVE LastIndexOf(_, _, _)
LastIndexOf(s, c, i) ==
    IF i = 0 THEN 0
    ELSE IF s[i] = c THEN i
    ELSE LastIndexOf(s, c, i - 1)

\* pathlib's PurePath.name: the part after the last separator
PathName(p) ==
    LET k == LastIndexOf(p, "/", Len(p))
    IN  SubSeq(p, k + 1, Len(p))

\* pathlib's PurePath.suffix: from the last dot of the name, unless the dot
\* leads the name or ends it
PathSuffix(p) ==
    LET name == PathName(p)
        i == LastIndexOf(name, ".", Len(name))
    IN  IF 1 < i /\ i < Len(name) THEN SubSeq(name, i, Len(name)) ELSE <<>>

FileExtension(p) == IF PathSuffix(p) = <<>> THEN <<"unknown">> ELSE PathSuffix(p)

----------------------------------------------------------------------------
(* Documents *)

\* A finding attached to an Analysis (models.analysis.Vulnerability)
Vuln(t, sev, path) == [type |-> t, severity |-> sev, file_path |-> path]

\* A Fix as the Fix Generator returns it: one per file
Fix(path, original, desc, types) ==
    [file_path |-> path, original_content |-> original,
     fixed_content |-> "patched", description |-> desc,
     vulnerabilities_fixed |-> types]

\* The arguments of one store_successful_pattern call
StoreArgs(aid, t, sev, path, before, after, desc) ==
    [analysis_id |-> aid, vulnerability_type |-> t, severity |-> sev,
     file_path |-> path, code_before |-> before, code_after |-> after,
     fix_description |-> desc]

NoArgs == StoreArgs(0, "", "", <<>>, <<>>, <<>>, "")

\* The deduplication signature of a call and of a stored pattern
SigOfArgs(a) ==
    <<a.vulnerability_type, FileExtension(a.file_path), a.fix_description>>
SigOfPattern(p) ==
    <<p.vulnerability_type, p.file_extension, p.fix_description>>

----------------------------------------------------------------------------
(* Pattern Store: FixPatternService.store_successful_pattern *)

\* db.fix_patterns.find_one on the three signature fields: the first match,
\* 0 when there is none
FindExisting(ps, a) ==
    LET hits == {i \in 1..Len(ps) : SigOfPattern(ps[i]) = SigOfArgs(a)}
    IN  IF hits = {} THEN 0 ELSE CHOOSE i \in hits : \A j \in hits : i <= j

\* update_one({'id': existing.id}, $inc success_count, $push analysis_ids)
IncrementPattern(ps, id, a) ==
    [i \in 1..Len(ps) |->
        IF ps[i].id = id
        THEN [ps[i] EXCEPT !.success_count = @ + 1,
                           !.analysis_ids = Append(@, a.analysis_id)]
        ELSE ps[i]]

\* insert_one of a new pattern with success_count 1
NewPattern(id, a) ==
    [id |-> id,
     vulnerability_type |-> a.vulnerability_type,
     severity |-> a.severity,
     file_extension |-> FileExtension(a.file_path),
     file_path |-> a.file_path,
     code_before |-> a.code_before,
     code_after |-> a.code_after,
     fix_description |-> a.fix_description,
     analysis_ids |-> <<a.analysis_id>>,
     success_count |-> 1]

\* A store that skips the lookup result and always inserts
StoreWriteAlwaysInsert(ps, existing, a) ==
    Append(ps, NewPattern(Len(ps) + 1, a))

\* The write that follows the lookup: increment the pattern found, or insert
StoreWrite(ps, existing, a) ==
    IF existing # 0
    THEN IncrementPattern(ps, existing, a)
    ELSE Append(ps, NewPattern(Len(ps) + 1, a))

\* The id the call returns
StoreResult(ps, existing) == IF existing # 0 THEN existing ELSE Len(ps) + 1

----------------------------------------------------------------------------
(* Feedback Extractor: CommandParser.extract_feedback_features.  A feedback
   text is a sequence of words, shorter than 100 characters; a reply of the
   Analyst is a sequence of lines. *)

Words ==
    {"Wrong", "good", "breaks", "break", "production", "critical",
     "incorrect", "false", "positive"}

\* str.lower on a word
Lower(word) == IF word = "Wrong" THEN "wrong" ELSE word

\* The one-word keywords that are substrings of a lowered word
KeywordsIn(word) ==
    CASE word = "wrong" -> {"wrong"}
      [] word = "good" -> {"good"}
      [] word = "breaks" -> {"breaks", "break"}
      [] word = "break" -> {"break"}
      [] word = "critical" -> {"critical"}
      [] word = "incorrect" -> {"incorrect", "correct"}
      [] word = "production" -> {"production"}
      [] OTHER -> {}

\* kw in feedback_lower
KeywordsOf(text) ==
    UNION {KeywordsIn(Lower(text[k])) : k \in 1..Len(text)}
      \cup (IF \E k \in 1..Len(text) - 1 :
                  Lower(text[k]) = "false" /\ Lower(text[k + 1]) = "positive"
             THEN {"false positive"} ELSE {})

false_positive_keywords ==
    <<"false positive", "not a vulnerability", "not vulnerable",
      "not an issue", "incorrect">>
four_breaking_keywords == {"breaking", "breaks", "production", "critical"}
breaking_change_keywords ==
    {"breaking", "breaks", "break", "production", "critical"}
negative_keywords ==
    {"wrong", "bad", "incorrect", "issue", "problem", "error", "bug"}
positive_keywords == {"good", "great", "correct", "thanks", "appreciate"}

\* A JSON object, and the JSON value null
Object(fields) == [type |-> "object", obj |-> fields]
Null == [type |-> "null", obj |-> <<>>]

\* feedback_features of an Analysis that was never denied
NoFeatures == [type |-> "none", obj |-> <<>>]

\* feedback_text.split() for the texts of the commands
SplitWords(text) ==
    CASE text = "breaks production api" -> <<"breaks", "production", "api">>
      [] text = "" -> <<>>
      [] OTHER -> <<text>>

\* min(1.0, word_count / 50.0), in percent
Specificity(text) == IF 2 * Len(text) > 100 THEN 100 ELSE 2 * Len(text)

\* _fallback_feature_extraction
FallbackFeatureExtraction(text) ==
    LET found == KeywordsOf(text)
        negative_count == Cardinality(negative_keywords \cap found)
        positive_count == Cardinality(positive_keywords \cap found)
    IN  Object(
          [identified_issues |-> <<text>>,
           requested_changes |-> <<>>,
           false_positive_flags |->
              SelectSeq(false_positive_keywords, LAMBDA kw : kw \in found),
           breaking_change_concerns |->
              breaking_change_keywords \cap found # {},
           sentiment |->
              IF negative_count > positive_count THEN "negative"
              ELSE IF positive_count > negative_count THEN "positive"
              ELSE "neutral",
           specificity_score |-> Specificity(text)])

\* The lines of a reply that are JSON texts, and what json.loads makes of
\* each
JsonTexts == {"six", "partial", "mixed", "null"}

SixFields ==
    [identified_issues |-> <<<<"breaks">>>>, requested_changes |-> <<<<"good">>>>,
     false_positive_flags |-> <<>>, breaking_change_concerns |-> TRUE,
     sentiment |-> "negative", specificity_score |-> 80]

JsonValue(line) ==
    CASE line = "six" -> Object(SixFields)
      [] line = "partial" ->
            Object([identified_issues |-> <<<<"breaks">>>>,
                    sentiment |-> "negative"])
      [] line = "mixed" -> Object([SixFields EXCEPT !.sentiment = "mixed"])
      [] line = "null" -> Null

\* line.strip().startswith(three backticks): the line is a fence marker
IsFence(line) == line \in {"<fence>json", "<fence>"}

\* The removal of the code block markers, done when the reply starts with one
StripCodeBlocks(lines) ==
    IF lines # <<>> /\ IsFence(lines[1])
    THEN SelectSeq(lines, LAMBDA l : ~IsFence(l))
    ELSE lines

\* json.loads succeeds: the text is one JSON value
IsJson(lines) == Len(lines) = 1 /\ lines[1] \in JsonTexts

\* The replies: the call raises, or it answers with lines
Failed == [failed |-> TRUE, lines |-> <<>>]
Answer(lines) == [failed |-> FALSE, lines |-> lines]

Replies ==
    {Failed} \cup
    {Answer(l) : l \in
        { <<>>, <<"prose">>, <<"six">>, <<"partial">>, <<"mixed">>,
          <<"null">>,
          <<"<fence>json", "six", "<fence>">>, <<"<fence>", "null", "<fence>">>,
          <<"prose", "<fence>json", "six", "<fence>">>,
          <<"<fence>json", "six", "<fence>", "prose">> }}

\* An extraction that answers a failure with a record of defaults
ExtractWithDefaults(text, reply) ==
    LET lines == StripCodeBlocks(reply.lines)
    IN  IF ~reply.failed /\ IsJson(lines)
        THEN JsonValue(lines[1])
        ELSE Object([SixFields EXCEPT !.sentiment = "neutral"])

\* extract_feedback_features: the parsed reply as it is, the fallback when
\* the call or json.loads raises
ExtractFeedbackFeatures(text, reply) ==
    LET lines == StripCodeBlocks(reply.lines)
    IN  IF ~reply.failed /\ IsJson(lines)
        THEN JsonValue(lines[1])
        ELSE FallbackFeatureExtraction(text)

----------------------------------------------------------------------------
(* Guidance model: RLService *)

\* A classifier or a scaler: unfit as constructed, or fit on training rows
NewEstimator == [fitted |-> FALSE, trained_on |-> <<>>]
Fit(rows) == [fitted |-> TRUE, trained_on |-> rows]

\* A file of models/: not there, there and not unpicklable (cut short by a
\* failed dump), or the pickle of an estimator
Missing == [state |-> "missing", content |-> NewEstimator]
Unreadable == [state |-> "unreadable", content |-> NewEstimator]
Stored(e) == [state |-> "stored", content |-> e]

\* _load_or_initialize_model: both pickles when rl_model.pkl exists and both
\* load; a new classifier and scaler when rl_model.pkl is missing, and (the
\* except branch) when a pickle cannot be opened or loaded
LoadOrInitializeModel(m) ==
    IF m.rl_model.state = "stored" /\ m.scaler.state = "stored"
    THEN [model |-> m.rl_model.content, scaler |-> m.scaler.content]
    ELSE [model |-> NewEstimator, scaler |-> NewEstimator]

\* The classifier and the scaler of an RLService before anything is loaded
NewRLService == [model |-> NewEstimator, scaler |-> NewEstimator]

\* extract_features, the entries the documents of the model carry; the zero
\* vector when the extraction raises: a document inserted through the
\* Analysis model carries feedback_features: None until a denial sets it,
\* and None has no .get
ZeroFeatures ==
    [vulnerability_count |-> 0, high_count |-> 0, fix_generated |-> 0,
     iteration_number |-> 0]

ExtractFeatures(a) ==
    IF \/ a.parent_analysis_id = 0 /\ a.feedback_features.type = "none"
       \/ a.feedback_features.type = "null"
    THEN ZeroFeatures
    ELSE [vulnerability_count |-> Len(a.vulnerabilities),
          high_count |->
             Cardinality({k \in 1..Len(a.vulnerabilities) :
                             a.vulnerabilities[k].severity = "high"}),
          fix_generated |-> IF a.pr_number # 0 THEN 1 ELSE 0,
          iteration_number |-> a.iteration_number]

\* The labels a classifier was fit on (classes_)
Classes(e) == {e.trained_on[k][2] : k \in 1..Len(e.trained_on)}

\* Probabilities in percent; predict_proba of a forest answers a share of
\* its trees
Probabilities == {0, 25, 50, 75, 100}

Returned(v) == [raised |-> FALSE, value |-> v]
Raised == [raised |-> TRUE, value |-> 0]
NoPrediction == [raised |-> FALSE, value |-> -1]

\* The body of predict_approval_probability without its except branch:
\* 0.5 for a classifier without classes_, NotFittedError from an unfit
\* scaler, IndexError on proba[1] when the classifier saw one label only
PredictUnguarded(rl, a) ==
    IF ~rl.model.fitted THEN {Returned(50)}
    ELSE IF ~rl.scaler.fitted THEN {Raised}
    ELSE IF Classes(rl.model) # {0, 1} THEN {Raised}
    ELSE {Returned(v) : v \in Probabilities}

\* predict_approval_probability: what it can return for the loaded model
PredictApprovalProbability(rl, a) ==
    {IF o.raised THEN Returned(50) ELSE o : o \in PredictUnguarded(rl, a)}

\* What the regeneration job holds before it asked for guidance
NoGuidance ==
    [approval_probability |-> -1, risk_factors |-> <<>>,
     recommended_adjustments |-> <<>>]

\* The guidance of get_fix_guidance for a classifier without classes_
GenericGuidance ==
    [approval_probability |-> 50,
     risk_factors |-> <<"Model not yet trained (insufficient feedback data)">>,
     recommended_adjustments |-> <<"Apply general security best practices">>]

\* The guidance of the except branch of get_fix_guidance
ErrorGuidance ==
    [approval_probability |-> 50,
     risk_factors |-> <<"Error generating guidance">>,
     recommended_adjustments |-> <<"Apply general security best practices">>]

\* A field of the stored features, with the default of .get
FeatureOr(f, name, default) ==
    IF name \in DOMAIN f.obj THEN f.obj[name] ELSE default

\* The risk factors and adjustments get_fix_guidance derives for a fit
\* classifier from the stored features, the findings, the iteration and the
\* predicted probability p
DerivedGuidance(a, p) ==
    LET f == a.feedback_features
        When(c, x) == IF c THEN <<x>> ELSE <<>>
        negative == FeatureOr(f, "sentiment", "") = "negative"
        flagged == FeatureOr(f, "false_positive_flags", <<>>) # <<>>
        breaking == FeatureOr(f, "breaking_change_concerns", FALSE)
        changes == FeatureOr(f, "requested_changes", <<>>)
        many == Len(a.vulnerabilities) > 5
        again == a.iteration_number > 1
        adjustments ==
            When(negative, "Address specific concerns mentioned in feedback")
            \o When(flagged, "Re-verify vulnerability detection accuracy")
            \o When(breaking,
                    "Minimize code changes, preserve API compatibility")
            \o [k \in 1..(IF Len(changes) < 3 THEN Len(changes) ELSE 3) |->
                   "Apply requested change"]
            \o When(many, "Prioritize critical and high severity fixes")
            \o When(again, "Focus on addressing specific feedback points")
            \o When(p < 30, "Consider conservative, minimal changes")
    IN  [approval_probability |-> p,
         risk_factors |->
            When(negative, "Previous feedback was negative")
            \o When(flagged, "User flagged potential false positives")
            \o When(breaking, "Previous fix caused breaking changes")
            \o When(changes # <<>>, "User requested specific changes")
            \o When(many, "High vulnerability count")
            \o When(again, "Already at iteration")
            \o When(p < 30, "Low predicted approval probability")
            \o When(p >= 30 /\ p < 50, "Moderate approval probability"),
         recommended_adjustments |->
            IF adjustments = <<>>
            THEN <<"Apply security best practices", "Minimize code changes",
                   "Add comments explaining changes",
                   "Preserve existing functionality">>
            ELSE adjustments]

\* get_fix_guidance of an RLService that loaded rl: the guidances it can
\* return for the Analysis a
GetFixGuidance(rl, a) ==
    IF ~rl.model.fitted THEN {GenericGuidance}
    ELSE IF a.feedback_features.type # "object" THEN {ErrorGuidance}
    ELSE {DerivedGuidance(a, o.value) :
             o \in PredictApprovalProbability(rl, a)}

\* The training set: every FeedbackRecord whose Analysis is found, its
\* features and its label
Label(f) == IF f.approved THEN 1 ELSE 0

TrainingRows(fb, as) ==
    LET found == SelectSeq(fb, LAMBDA f : f.analysis_id \in 1..Len(as))
    IN  [k \in 1..Len(found) |->
            <<ExtractFeatures(as[found[k].analysis_id]), Label(found[k])>>]

\* _save_model with both dumps succeeding
SaveModel(model, scaler) ==
    [rl_model |-> Stored(model), scaler |-> Stored(scaler)]

\* _save_model when a dump fails (the disk is full): open(..., 'wb') has cut
\* the file, the error is logged; a failure on rl_model.pkl leaves
\* scaler.pkl as it was
SaveModelFailing(m, model, scaler) ==
    { [rl_model |-> Stored(model), scaler |-> Unreadable],
      [rl_model |-> Unreadable, scaler |-> m.scaler] }

\* A retraining that fits on the new record alone
UpdateModelOnNewRecord(m, fb, as) ==
    IF Len(fb) < MIN_FEEDBACK THEN m
    ELSE LET rows == TrainingRows(<<fb[Len(fb)]>>, as)
         IN  SaveModel(Fit(rows), Fit(rows))

\* RLService().update_model_with_feedback: nothing below MIN_FEEDBACK
\* records; otherwise scaler and classifier are fit on all rows and saved
UpdateModelWithFeedback(m, fb, as) ==
    IF Len(fb) < MIN_FEEDBACK THEN m
    ELSE LET rows == TrainingRows(fb, as)
         IN  SaveModel(Fit(rows), Fit(rows))

----------------------------------------------------------------------------
(* Analyses, jobs and workers *)

\* A document of db.analyses (models.analysis.Analysis plus the fields the
\* workflow adds); id 0 stands for "no document"
NoAnalysis ==
    [id |-> 0, commit_sha |-> "", status |-> "none",
     vulnerabilities |-> <<>>, fixes |-> <<>>, pr_number |-> 0,
     parent_analysis_id |-> 0, iteration_number |-> 1,
     previous_pr_numbers |-> <<>>, rl_guidance_applied |-> FALSE,
     user_approved |-> "none", user_feedback |-> "",
     approved_by |-> "", denied_by |-> "", merged |-> FALSE,
     merge_sha |-> 0, denial_reasons |-> <<>>, feedback_features |-> NoFeatures]

\* A Celery job: its kind and the arguments of the task
Job(kind, pr, user, text, aid, iter, commit) ==
    [kind |-> kind, pr |-> pr, user |-> user, text |-> text,
     aid |-> aid, iter |-> iter, commit |-> commit]

NoJob == Job("none", 0, "", "", 0, 0, "")

\* A worker that runs nothing
IdleWorker ==
    [kind |-> "idle", pc |-> "idle", job |-> NoJob,
     authorized |-> FALSE, doc |-> NoAnalysis, trail |-> <<>>,
     merge_sha |-> 0, args |-> NoArgs, existing |-> 0, i |-> 0,
     pattern_ids |-> <<>>, features |-> NoFeatures, fixes |-> <<>>,
     vulns |-> <<>>, newid |-> 0, newpr |-> 0, wrote |-> FALSE, enq |-> 0,
     posted |-> <<>>, similar |-> <<>>, prediction |-> NoPrediction,
     reply |-> <<>>, agents |-> <<>>, state |-> <<>>,
     guidance |-> NoGuidance, rl |-> NewRLService]

\* A pull request of the host
NewPR(fixes, by) ==
    [state |-> "open", merged |-> FALSE,
     merged_by |-> "none", merges |-> 0, author |-> by, fixes |-> fixes,
     comments |-> {}]

Init ==
    /\ analyses = <<>>
    /\ prs = <<>>
    /\ patterns = <<>>
    /\ feedback = <<>>
    /\ queue = EmptyBag
    /\ ncommands = 0
    /\ wk = [w \in Workers |-> IdleWorker]
    /\ done = EmptyBag
    /\ calls = <<>>
    /\ models = [rl_model |-> Missing, scaler |-> Missing]

----------------------------------------------------------------------------
(* The Pattern Store called on its own: store(...) of section 4.4 *)

StoreInputs ==
    { StoreArgs(1, "SQL_INJECTION", "high", PathA, "b1", "a1", "parameterize"),
      StoreArgs(2, "SQL_INJECTION", "low", PathB, "b2", "a2", "parameterize"),
      StoreArgs(1, "SQL_INJECTION", "high", PathJ, "b1", "a1", "parameterize"),
      StoreArgs(2, "XSS", "high", PathA, "b1", "a1", "parameterize"),
      StoreArgs(1, "SQL_INJECTION", "high", PathA, "b1", "a1", "escape"),
      StoreArgs(2, "SQL_INJECTION", "high", PathM, "b1", "a1", "parameterize"),
      StoreArgs(1, "SQL_INJECTION", "medium", PathH, "b2", "a2", "parameterize") }

\* The worker a job is handed to: the first one that is free (which of the
\* identical worker processes runs a job makes no difference)
FreeWorker(w) ==
    /\ wk[w].kind = "idle"
    /\ \A k, l \in DOMAIN WorkerOrder :
          WorkerOrder[l] = w /\ k < l => wk[WorkerOrder[k]].kind # "idle"

InFlight == Cardinality({w \in Workers : wk[w].kind = "store"})

\* A caller enters store_successful_pattern
StoreCall(w, a) ==
    /\ FreeWorker(w)
    /\ Len(calls) + InFlight < MaxStores
    /\ wk' = [wk EXCEPT ![w] =
                [IdleWorker EXCEPT !.kind = "store", !.pc = "store_find",
                                   !.args = a]]
    /\ UNCHANGED <<analyses, prs, patterns, feedback, queue, ncommands, done, calls, models>>

\* await db.fix_patterns.find_one(...)
StoreFindStep(w) ==
    /\ wk[w].kind = "store"
    /\ wk[w].pc = "store_find"
    /\ wk' = [wk EXCEPT ![w].existing = FindExisting(patterns, wk[w].args),
                        ![w].pc = "store_write"]
    /\ UNCHANGED <<analyses, prs, patterns, feedback, queue, ncommands, done, calls, models>>

\* await update_one(...) or await insert_one(...), then return the id
StoreWriteStep(w) ==
    /\ wk[w].kind = "store"
    /\ wk[w].pc = "store_write"
    /\ patterns' = StoreWrite(patterns, wk[w].existing, wk[w].args)
    /\ calls' = Append(calls, [args |-> wk[w].args,
                               ret |-> StoreResult(patterns, wk[w].existing)])
    /\ wk' = [wk EXCEPT ![w] = IdleWorker]
    /\ UNCHANGED <<analyses, prs, feedback, queue, ncommands, done, models>>

\* Store calls issued by concurrently running jobs
PatternNext ==
    \/ \E w \in Workers, a \in StoreInputs : StoreCall(w, a)
    \/ \E w \in Workers : StoreFindStep(w)
    \/ \E w \in Workers : StoreWriteStep(w)

PatternSpec == Init /\ [][PatternNext]_vars

\* Store calls issued one after another: a call starts when none is running
StoreCallInSequence(w, a) ==
    /\ \A v \in Workers : wk[v].kind = "idle"
    /\ StoreCall(w, a)

SeqStoreNext ==
    \/ \E w \in Workers, a \in StoreInputs : StoreCallInSequence(w, a)
    \/ \E w \in Workers : StoreFindStep(w)
    \/ \E w \in Workers : StoreWriteStep(w)

SeqStoreSpec == Init /\ [][SeqStoreNext]_vars

----------------------------------------------------------------------------
(* Pattern Store: FixPatternService.get_similar_patterns *)

\* The query: type and extension, and the severity when one is given ("" and
\* None both skip the severity filter)
Matching(ps, t, e, sev) ==
    {i \in 1..Len(ps) :
        /\ ps[i].vulnerability_type = t
        /\ ps[i].file_extension = e
        /\ (sev # "" => ps[i].severity = sev)}

\* The orders of S that leave the documents as they come
AnyOrder(ps, S) ==
    {q \in [1..Cardinality(S) -> S] :
        \A k, l \in 1..Cardinality(S) : k # l => q[k] # q[l]}

\* .sort('success_count', -1): the orders of S by descending success_count;
\* the order among equal counts is the database's choice
SortedBySuccess(ps, S) ==
    {q \in [1..Cardinality(S) -> S] :
        /\ \A k, l \in 1..Cardinality(S) : k # l => q[k] # q[l]
        /\ \A k, l \in 1..Cardinality(S) :
              k < l => ps[q[k]].success_count >= ps[q[l]].success_count}

\* The fields of a pattern that are returned
RelevantFields(p) ==
    [pattern_id |-> p.id,
     vulnerability_type |-> p.vulnerability_type,
     severity |-> p.severity,
     file_extension |-> p.file_extension,
     code_before |-> p.code_before,
     code_after |-> p.code_after,
     fix_description |-> p.fix_description,
     success_count |-> p.success_count]

\* find(query).sort(...).limit(limit).to_list(length=limit), projected: the
\* lists the call can return
GetSimilarPatterns(ps, t, e, sev, limit) ==
    LET S == Matching(ps, t, e, sev)
        n == IF Cardinality(S) < limit THEN Cardinality(S) ELSE limit
    IN  {[k \in 1..n |-> RelevantFields(ps[q[k]])] :
            q \in SortedBySuccess(ps, S)}

QueryTypes == {"SQL_INJECTION", "XSS"}
QueryPaths == {PathA, PathJ}
QuerySeverities == {"", "high"}

\* A caller retrieves, no store call running; a database error is caught and
\* answered with the empty list
Retrieve(w, t, path, sev, limit) ==
    /\ \A v \in Workers : wk[v].kind = "idle"
    /\ FreeWorker(w)
    /\ \E r \in GetSimilarPatterns(patterns, t, FileExtension(path), sev,
                                    limit) \cup {<<>>} :
          wk' = [wk EXCEPT ![w] =
                   [IdleWorker EXCEPT
                      !.kind = "retrieve", !.pc = "retrieved",
                      !.args = StoreArgs(0, t, sev, path, <<>>, <<>>, ""),
                      !.i = limit, !.similar = r]]
    /\ UNCHANGED <<analyses, prs, patterns, feedback, queue, ncommands, done,
                   calls, models>>

\* The caller is done with the list
RetrieveReturn(w) ==
    /\ wk[w].kind = "retrieve"
    /\ wk' = [wk EXCEPT ![w] = IdleWorker]
    /\ UNCHANGED <<analyses, prs, patterns, feedback, queue, ncommands, done,
                   calls, models>>

RetrieveNext ==
    \/ \E w \in Workers, a \in StoreInputs : StoreCallInSequence(w, a)
    \/ \E w \in Workers : StoreFindStep(w)
    \/ \E w \in Workers : StoreWriteStep(w)
    \/ \E w \in Workers, t \in QueryTypes, path \in QueryPaths,
          sev \in QuerySeverities, limit \in 1..MaxLimit :
            Retrieve(w, t, path, sev, limit)
    \/ \E w \in Workers : RetrieveReturn(w)

RetrieveSpec == Init /\ [][RetrieveNext]_vars

----------------------------------------------------------------------------
(* The repository host *)

\* A host on which everybody is a collaborator
AnyoneAuthorized(user) == {TRUE}

\* repo.has_in_collaborators(username)
AuthorizationAnswers(user) == {user \in Collaborators}

\* pr.create_issue_comment: the comment appears on the thread of the PR
AddComment(ps, p, tag) ==
    [ps EXCEPT ![p].comments = @ \cup {tag}]

\* pr.mergeable as the host reports it on a read: None while it is being
\* computed, True, or False; it changes with the base branch, so each read
\* may see another value
Mergeability == {"unknown", "yes", "no"}

\* A merge that looks at the conflicts only
MergeAllowedAgain(pr, mergeable) == mergeable = "yes"

\* What merge_pull_request lets through to pr.merge(): "not pr.mergeable" and
\* "pr.merged" raise, and the host merges open PRs only
MergeAllowed(pr, mergeable) ==
    /\ pr.state = "open"
    /\ ~pr.merged
    /\ mergeable = "yes"

\* The host marks the PR merged; the merge commit is named after the PR
MergePR(ps, p, by) ==
    [ps EXCEPT ![p].merged = TRUE, ![p].state = "closed",
               ![p].merged_by = by, ![p].merges = @ + 1]

MergeSha(p) == p

----------------------------------------------------------------------------
(* Jobs: enqueueing, starting and finishing *)

Enqueue(q, j) == BagAdd(q, j)

FirstStep(kind) ==
    CASE kind = "approve" -> "find"
      [] kind = "deny" -> "find"
      [] kind = "regen" -> "regen_insert"
      [] kind = "analysis" -> "an_run"

StartedWorker(j) ==
    [IdleWorker EXCEPT !.kind = j.kind, !.job = j, !.pc = FirstStep(j.kind)]

\* A queued job is picked up by a free worker
TakeJob(w, j) ==
    /\ FreeWorker(w)
    /\ j \in DOMAIN queue
    /\ queue' = BagRemove(queue, j)
    /\ wk' = [wk EXCEPT ![w] = StartedWorker(j)]
    /\ UNCHANGED <<analyses, prs, patterns, feedback, ncommands, done, calls, models>>

\* The record a job leaves when it returns
Outcome(l, success, reason) ==
    [job |-> l.job, success |-> success, reason |-> reason,
     authorized |-> l.authorized, analysis_id |-> l.doc.id,
     iteration_number |-> l.doc.iteration_number, trail |-> l.trail,
     merge_sha |-> l.merge_sha, pattern_ids |-> l.pattern_ids,
     newid |-> l.newid, wrote |-> l.wrote, enq |-> l.enq,
     posted |-> l.posted, guidance |-> l.guidance]

\* The job of worker w returns: with local state l it leaves the outcome
Return(w, l, success, reason) ==
    /\ done' = BagAdd(done, Outcome(l, success, reason))
    /\ wk' = [wk EXCEPT ![w] = IdleWorker]

----------------------------------------------------------------------------
(* Webhook and trigger *)

\* AnalysisService.trigger_analysis: insert the Analysis, queue the job
Trigger(c) ==
    /\ Cardinality({i \in 1..Len(analyses) :
                        analyses[i].parent_analysis_id = 0}) < MaxTriggers
    /\ LET id == Len(analyses) + 1
       IN  /\ analyses' = Append(analyses,
                 [NoAnalysis EXCEPT !.id = id, !.commit_sha = c,
                                    !.status = "pending"])
           /\ queue' = Enqueue(queue, Job("analysis", 0, "", "", id, 1, c))
    /\ UNCHANGED <<prs, patterns, feedback, ncommands, wk, done, calls, models>>

\* issue_comment webhook with "/approve": handle_pr_approval.delay, and a
\* free worker starts the job
CommentApprove(w, p, u) ==
    /\ ncommands < MaxComments
    /\ p \in 1..Len(prs)
    /\ FreeWorker(w)
    /\ wk' = [wk EXCEPT ![w] =
                StartedWorker(Job("approve", p, u, "", 0, 0, ""))]
    /\ ncommands' = ncommands + 1
    /\ UNCHANGED <<analyses, prs, patterns, feedback, queue, done, calls, models>>

\* issue_comment webhook with "/deny - text": handle_pr_denial.delay, and a
\* free worker starts the job
CommentDeny(w, p, u, t) ==
    /\ ncommands < MaxComments
    /\ p \in 1..Len(prs)
    /\ FreeWorker(w)
    /\ wk' = [wk EXCEPT ![w] =
                StartedWorker(Job("deny", p, u, t, 0, 0, ""))]
    /\ ncommands' = ncommands + 1
    /\ UNCHANGED <<analyses, prs, patterns, feedback, queue, done, calls, models>>

----------------------------------------------------------------------------
(* Guards shared by handle_approve and handle_deny *)

\* A lookup that ignores the PR number
FirstAnalysis(as, p) == IF as = <<>> THEN NoAnalysis ELSE as[1]

\* PRWorkflowService.get_analysis_by_pr: find_one on pr_number
AnalysisByPR(as, p) ==
    LET hits == {i \in 1..Len(as) : as[i].pr_number = p}
    IN  IF hits = {} THEN NoAnalysis
        ELSE as[CHOOSE i \in hits : \A j \in hits : i <= j]

\* A guard failure that also files a FeedbackRecord
GuardFailureRecorded(w, l, reason) ==
    /\ prs' = AddComment(prs, l.job.pr, reason)
    /\ Return(w, [l EXCEPT !.posted = Append(@, reason)], FALSE, reason)
    /\ feedback' = Append(feedback,
          [analysis_id |-> l.doc.id, approved |-> FALSE,
           feedback_text |-> reason])
    /\ UNCHANGED <<analyses, patterns, queue, models>>

\* A guard of a handler fails: the comment that names the reason on the PR,
\* and the return with success False; no collection and no queue is touched
GuardFailure(w, l, reason) ==
    /\ prs' = AddComment(prs, l.job.pr, reason)
    /\ Return(w, [l EXCEPT !.posted = Append(@, reason)], FALSE, reason)
    /\ UNCHANGED <<analyses, patterns, feedback, queue>>

----------------------------------------------------------------------------
(* PRWorkflowService.handle_approve, run by _handle_pr_approval_async *)

\* Steps 1 and 2: the authorization of the actor, then the Analysis of the PR
ApproveFind(w) ==
    /\ wk[w].kind = "approve"
    /\ wk[w].pc = "find"
    /\ \E authorized \in AuthorizationAnswers(wk[w].job.user) :
         LET a == AnalysisByPR(analyses, wk[w].job.pr)
             l == [wk[w] EXCEPT !.authorized = TRUE,
                                !.trail = Append(@, "authorized")]
         IN  IF ~authorized
             THEN GuardFailure(w, wk[w], "unauthorized")
             ELSE IF a.id = 0
             THEN GuardFailure(w, l, "analysis_not_found")
             ELSE /\ wk' = [wk EXCEPT
                              ![w] = [l EXCEPT
                                        !.doc = a,
                                        !.trail = Append(@, "analysis_found"),
                                        !.pc = "get_pr"]]
                  /\ UNCHANGED <<analyses, prs, patterns, feedback, queue, done>>
    /\ UNCHANGED <<ncommands, calls, models>>

\* Steps 3 and 4: get_pull_request, already merged or already closed; then
\* check_pr_mergeable, where has_conflicts is "pr.mergeable is False"
ApproveGetPR(w) ==
    /\ wk[w].kind = "approve"
    /\ wk[w].pc = "get_pr"
    /\ LET pr == prs[wk[w].job.pr]
           l == [wk[w] EXCEPT !.trail = Append(@, "not_merged_not_closed")]
       IN  IF pr.merged
           THEN /\ prs' = AddComment(prs, wk[w].job.pr, "already_merged")
                /\ Return(w, [wk[w] EXCEPT
                                !.posted = Append(@, "already_merged")],
                          TRUE, "already_merged")
                /\ UNCHANGED <<analyses, patterns, feedback, queue>>
           ELSE IF pr.state = "closed"
           THEN GuardFailure(w, wk[w], "already_closed")
           ELSE \E mergeable \in Mergeability :
                  IF mergeable = "no"
                  THEN GuardFailure(w, l, "has_conflicts")
                  ELSE /\ wk' = [wk EXCEPT
                                   ![w] = [l EXCEPT
                                             !.trail = Append(@, "no_conflicts"),
                                             !.pc = "merge"]]
                       /\ UNCHANGED <<analyses, prs, patterns, feedback, queue,
                                      done>>
    /\ UNCHANGED <<ncommands, calls, models>>

\* Step 5: merge_pull_request; it raises when the PR is not mergeable, is
\* merged already, or the host refuses the merge
ApproveMerge(w) ==
    /\ wk[w].kind = "approve"
    /\ wk[w].pc = "merge"
    /\ \E mergeable \in Mergeability, accepted \in BOOLEAN :
         IF accepted /\ MergeAllowed(prs[wk[w].job.pr], mergeable)
         THEN /\ prs' = MergePR(prs, wk[w].job.pr, "system")
              /\ wk' = [wk EXCEPT ![w].merge_sha = MergeSha(wk[w].job.pr),
                                  ![w].trail = Append(@, "merged"),
                                  ![w].pc = "update"]
              /\ UNCHANGED <<analyses, patterns, feedback, queue, done>>
         ELSE GuardFailure(w, wk[w], "merge_failed")
    /\ UNCHANGED <<ncommands, calls, models>>

\* update_one({'id': id}, {'$set': fields}) on db.analyses
SetFields(as, id, doc) ==
    [i \in 1..Len(as) |-> IF as[i].id = id THEN doc ELSE as[i]]

ApprovedFields(a, user, sha) ==
    [a EXCEPT !.user_approved = "true", !.approved_by = user,
              !.merged = TRUE, !.merge_sha = sha]

\* Step 6: mark the Analysis approved and merged
ApproveUpdate(w) ==
    /\ wk[w].kind = "approve"
    /\ wk[w].pc = "update"
    /\ analyses' = SetFields(analyses, wk[w].doc.id,
          ApprovedFields(analyses[wk[w].doc.id], wk[w].job.user, wk[w].merge_sha))
    /\ wk' = [wk EXCEPT ![w].wrote = TRUE, ![w].i = 1, ![w].pc = "store"]
    /\ UNCHANGED <<prs, patterns, feedback, queue, ncommands, done, calls, models>>

\* Step 7: the (vulnerability, fix) pairs of the loop, vulnerabilities[i]
\* with fixes[i] while i < len(fixes), both read from the Analysis document
PairCount(a) ==
    IF Len(a.vulnerabilities) <= Len(a.fixes)
    THEN Len(a.vulnerabilities) ELSE Len(a.fixes)

PairArgs(a, i) ==
    StoreArgs(a.id, a.vulnerabilities[i].type, a.vulnerabilities[i].severity,
              a.vulnerabilities[i].file_path, a.fixes[i].original_content,
              a.fixes[i].fixed_content, a.fixes[i].description)

\* Step 7: one await of the loop, the lookup or the write of one
\* store_successful_pattern call; past the last pair the loop ends
ApproveStore(w) ==
    /\ wk[w].kind = "approve"
    /\ wk[w].pc \in {"store", "store_write"}
    /\ IF wk[w].i > PairCount(wk[w].doc)
       THEN /\ wk' = [wk EXCEPT ![w].pc = "feedback"]
            /\ UNCHANGED patterns
       ELSE IF wk[w].pc = "store"
       THEN /\ wk' = [wk EXCEPT
                        ![w].args = PairArgs(wk[w].doc, wk[w].i),
                        ![w].existing =
                            FindExisting(patterns, PairArgs(wk[w].doc, wk[w].i)),
                        ![w].pc = "store_write"]
            /\ UNCHANGED patterns
       ELSE /\ patterns' = StoreWrite(patterns, wk[w].existing, wk[w].args)
            /\ wk' = [wk EXCEPT
                        ![w].pattern_ids =
                            Append(@, StoreResult(patterns, wk[w].existing)),
                        ![w].i = @ + 1,
                        ![w].pc = "store"]
    /\ UNCHANGED <<analyses, prs, feedback, queue, ncommands, done, calls, models>>

\* FeedbackService.submit_feedback: insert the FeedbackRecord and copy the
\* disposition onto the Analysis
FeedbackRecord(aid, approved, text) ==
    [analysis_id |-> aid, approved |-> approved, feedback_text |-> text]

DispositionFields(a, approved, text) ==
    [a EXCEPT !.user_approved = IF approved THEN "true" ELSE "false",
              !.user_feedback = text]

\* Steps 8 and 9: the positive FeedbackRecord, the success comment, return
ApproveFeedback(w) ==
    /\ wk[w].kind = "approve"
    /\ wk[w].pc = "feedback"
    /\ feedback' = Append(feedback,
          FeedbackRecord(wk[w].doc.id, TRUE, "PR approved and merged"))
    /\ analyses' = SetFields(analyses, wk[w].doc.id,
          DispositionFields(analyses[wk[w].doc.id], TRUE, "PR approved and merged"))
    /\ models' = UpdateModelWithFeedback(models, feedback', analyses')
    /\ prs' = AddComment(prs, wk[w].job.pr, "merged")
    /\ Return(w, [wk[w] EXCEPT !.posted = Append(@, "merged")], TRUE, "merged")
    /\ UNCHANGED <<patterns, queue, ncommands, calls>>

----------------------------------------------------------------------------
(* Fix Generator: FixService.generate_fixes and
   generate_fixes_with_rl_guidance *)

\* The files of the findings, in order of first appearance (vulns_by_file)
RECURSIVE FilesOf(_)
FilesOf(vulns) ==
    IF vulns = <<>> THEN <<>>
    ELSE LET before == FilesOf(SubSeq(vulns, 1, Len(vulns) - 1))
             path == vulns[Len(vulns)].file_path
         IN  IF path \in Range(before) THEN before ELSE Append(before, path)

VulnsIn(vulns, path) == SelectSeq(vulns, LAMBDA v : v.file_path = path)

TypesOf(vulns) == [k \in 1..Len(vulns) |-> vulns[k].type]

\* "Fixed n security issue(s): types", with the iteration when regenerating
Description(vulns, iter) == <<Len(vulns), TypesOf(vulns), iter>>

\* One Fix per file whose original content is among code_files and for which
\* the Analyst returned a patch (ok); the other files are skipped
GenerateFixes(vulns, code_files, ok, iter) ==
    LET files == SelectSeq(FilesOf(vulns),
                           LAMBDA f : f \in code_files /\ f \in ok)
    IN  [k \in 1..Len(files) |->
            Fix(files[k], IF iter = 0 THEN "" ELSE "original",
                Description(VulnsIn(vulns, files[k]), iter),
                TypesOf(VulnsIn(vulns, files[k])))]

\* original_analysis.get('code_files', []): no writer of db.analyses stores
\* a code_files field, so the regeneration job reads the default
CodeFilesOf(a) == {}

----------------------------------------------------------------------------
(* PRWorkflowService.handle_deny, run by _handle_pr_denial_async *)

\* What extract_feedback_features hands back when the Analyst answers with
\* the six-field record or fails: the record, or the keyword fallback
ExtractResults(text) ==
    {ExtractFeedbackFeatures(SplitWords(text), reply) :
        reply \in {Failed, Answer(<<"six">>)}}

\* A cap that lets the last iteration through
AboveCap(a) == a.iteration_number > MAX_ITERATIONS

\* Step 3: the cap on the iterations of a chain
AtCap(a) == a.iteration_number >= MAX_ITERATIONS

\* A caller that asks for the iteration of the denied Analysis again
SameIteration(a) == a.iteration_number

\* The iteration the caller asks the regeneration job for
NextIteration(a) == a.iteration_number + 1

\* Steps 1 to 4: the authorization of the actor, the Analysis of the PR, the
\* iteration cap, the extraction of the features
DenyFind(w) ==
    /\ wk[w].kind = "deny"
    /\ wk[w].pc = "find"
    /\ \E authorized \in AuthorizationAnswers(wk[w].job.user) :
         LET a == AnalysisByPR(analyses, wk[w].job.pr)
             l == [wk[w] EXCEPT !.authorized = TRUE,
                                !.trail = Append(@, "authorized")]
             found == [l EXCEPT !.doc = a,
                                !.trail = Append(@, "analysis_found")]
         IN  IF ~authorized
             THEN GuardFailure(w, wk[w], "unauthorized")
             ELSE IF a.id = 0
             THEN GuardFailure(w, l, "analysis_not_found")
             ELSE IF AtCap(a)
             THEN GuardFailure(w, found, "max_iterations")
             ELSE /\ \E f \in ExtractResults(wk[w].job.text) :
                       wk' = [wk EXCEPT
                                ![w] = [found EXCEPT
                                          !.trail = Append(@, "below_cap"),
                                          !.features = f,
                                          !.pc = "deny_update"]]
                  /\ UNCHANGED <<analyses, prs, patterns, feedback, queue, done>>
    /\ UNCHANGED <<ncommands, calls, models>>

\* handle_deny with a step 5 that overwrites the history with the new text
DeniedFieldsReplacing(a, user, text, features) ==
    [a EXCEPT !.user_approved = "false", !.denied_by = user,
              !.user_feedback = text, !.feedback_features = features,
              !.denial_reasons = <<text>>]

DeniedFields(a, user, text, features) ==
    [a EXCEPT !.user_approved = "false", !.denied_by = user,
              !.user_feedback = text, !.feedback_features = features,
              !.denial_reasons = Append(@, text)]

\* Step 5: persist the denial on the Analysis
DenyUpdate(w) ==
    /\ wk[w].kind = "deny"
    /\ wk[w].pc = "deny_update"
    /\ analyses' = SetFields(analyses, wk[w].doc.id,
          DeniedFields(analyses[wk[w].doc.id], wk[w].job.user, wk[w].job.text,
                                  wk[w].features))
    /\ wk' = [wk EXCEPT ![w].wrote = TRUE, ![w].pc = "deny_feedback"]
    /\ UNCHANGED <<prs, patterns, feedback, queue, ncommands, done, calls, models>>

\* Steps 6 and 7, and the caller: the negative FeedbackRecord, the comment,
\* the return, and regenerate_fix_with_feedback.delay for iteration + 1
DenyFeedback(w) ==
    /\ wk[w].kind = "deny"
    /\ wk[w].pc = "deny_feedback"
    /\ feedback' = Append(feedback,
          FeedbackRecord(wk[w].doc.id, FALSE, wk[w].job.text))
    /\ analyses' = SetFields(analyses, wk[w].doc.id,
          DispositionFields(analyses[wk[w].doc.id], FALSE, wk[w].job.text))
    /\ models' = UpdateModelWithFeedback(models, feedback', analyses')
    /\ prs' = AddComment(prs, wk[w].job.pr, "feedback_received")
    /\ queue' = Enqueue(queue,
          Job("regen", wk[w].job.pr, "", wk[w].job.text,
              wk[w].doc.id, NextIteration(wk[w].doc), ""))
    /\ Return(w, [wk[w] EXCEPT !.enq = @ + 1,
                               !.posted = Append(@, "feedback_received")],
              TRUE, "feedback_received")
    /\ UNCHANGED <<patterns, ncommands, calls>>

----------------------------------------------------------------------------
(* _regenerate_fix_async *)

\* A prior-patch list that holds the denied PR only
OnlyOldPR(original, old_pr_number) == <<old_pr_number>>

\* previous_pr_numbers of the new Analysis: the list of the denied one
\* followed by the number of the denied PR
PreviousPRNumbers(original, old_pr_number) ==
    Append(original.previous_pr_numbers, old_pr_number)

\* Steps 1 to 4: read the denied Analysis, ask a new RLService for guidance,
\* insert the Analysis of the next iteration with the parent pointer and the
\* job's iteration number
RegenInsert(w) ==
    /\ wk[w].kind = "regen"
    /\ wk[w].pc = "regen_insert"
    /\ \E guidance \in GetFixGuidance(LoadOrInitializeModel(models),
                                      analyses[wk[w].job.aid]) :
       LET original == analyses[wk[w].job.aid]
           id == Len(analyses) + 1
       IN  /\ analyses' = Append(analyses,
                 [NoAnalysis EXCEPT
                    !.id = id,
                    !.commit_sha = original.commit_sha,
                    !.status = "in_progress",
                    !.parent_analysis_id = wk[w].job.aid,
                    !.iteration_number = wk[w].job.iter,
                    !.previous_pr_numbers =
                        PreviousPRNumbers(original, wk[w].job.pr),
                    !.rl_guidance_applied = TRUE,
                    !.vulnerabilities = original.vulnerabilities])
           /\ wk' = [wk EXCEPT ![w].doc = original, ![w].newid = id,
                               ![w].guidance = guidance,
                               ![w].wrote = TRUE, ![w].pc = "regen_pr"]
    /\ UNCHANGED <<prs, patterns, feedback, queue, ncommands, done, calls, models>>

\* A regeneration that marks the old PR superseded before it creates the
\* replacement
RegenCreatePRAfterSuperseding(w) ==
    /\ wk[w].kind = "regen"
    /\ wk[w].pc = "regen_pr"
    /\ \E created \in BOOLEAN :
         LET marked == AddComment(prs, wk[w].job.pr, "superseded")
             l == [wk[w] EXCEPT !.posted = Append(@, "superseded")]
         IN  IF created
             THEN /\ prs' = Append(marked, NewPR(<<>>, "bot"))
                  /\ wk' = [wk EXCEPT ![w] = [l EXCEPT !.newpr = Len(prs) + 1,
                                                        !.pc = "regen_update"]]
                  /\ UNCHANGED done
             ELSE /\ Return(w, l, FALSE, "internal_error")
                  /\ prs' = marked
    /\ UNCHANGED <<analyses, patterns, feedback, queue, ncommands, calls, models>>

\* Steps 5 and 6: regenerate the fixes and create the replacement PR; when
\* create_fix_pr raises the job returns internal_error
RegenCreatePR(w) ==
    /\ wk[w].kind = "regen"
    /\ wk[w].pc = "regen_pr"
    /\ \E ok \in SUBSET Range(FilesOf(wk[w].doc.vulnerabilities)),
          created \in BOOLEAN :
         LET fixes == GenerateFixes(wk[w].doc.vulnerabilities,
                                    CodeFilesOf(wk[w].doc), ok, wk[w].job.iter)
         IN  IF created
             THEN /\ prs' = Append(prs, NewPR(fixes, "bot"))
                  /\ wk' = [wk EXCEPT ![w].fixes = fixes,
                                      ![w].newpr = Len(prs) + 1,
                                      ![w].pc = "regen_update"]
                  /\ UNCHANGED done
             ELSE /\ Return(w, wk[w], FALSE, "internal_error")
                  /\ UNCHANGED prs
    /\ UNCHANGED <<analyses, patterns, feedback, queue, ncommands, calls, models>>

PublishedFields(a, pr, fixes) ==
    [a EXCEPT !.status = "completed", !.pr_number = pr, !.fixes = fixes]

\* Steps 7 and 8: attach the PR and the fixes to the new Analysis, comment on
\* the old PR
RegenUpdate(w) ==
    /\ wk[w].kind = "regen"
    /\ wk[w].pc = "regen_update"
    /\ analyses' = SetFields(analyses, wk[w].newid,
          PublishedFields(analyses[wk[w].newid], wk[w].newpr, wk[w].fixes))
    /\ prs' = AddComment(prs, wk[w].job.pr, "superseded")
    /\ Return(w, [wk[w] EXCEPT !.posted = Append(@, "superseded")],
              TRUE, "regenerated")
    /\ UNCHANGED <<patterns, feedback, queue, ncommands, calls, models>>

----------------------------------------------------------------------------
(* _run_analysis_async: the initial analysis job *)

V1 == Vuln("SQL_INJECTION", "high", PathA)
V2 == Vuln("XSS", "medium", PathA)

\* What the Orchestrator can report for the commit
VulnLists == {<<>>, <<V1, V2>>}

AnalysisResultFields(a, vulns, pr) ==
    [a EXCEPT !.status = "completed", !.vulnerabilities = vulns,
              !.pr_number = pr]

\* Status in_progress, detection, fix generation over the cloned files and
\* create_fix_pr when there are fixes; an exception marks the Analysis failed
AnalysisRun(w) ==
    /\ wk[w].kind = "analysis"
    /\ wk[w].pc = "an_run"
    /\ \E vulns \in VulnLists :
       \E ok \in SUBSET Range(FilesOf(vulns)), created \in BOOLEAN :
         LET fixes == GenerateFixes(vulns, Range(FilesOf(vulns)), ok, 0)
         IN  IF created
             THEN /\ analyses' = SetFields(analyses, wk[w].job.aid,
                        [analyses[wk[w].job.aid] EXCEPT !.status = "in_progress"])
                  /\ prs' = IF fixes = <<>> THEN prs
                            ELSE Append(prs, NewPR(fixes, "bot"))
                  /\ wk' = [wk EXCEPT
                              ![w].vulns = vulns,
                              ![w].fixes = fixes,
                              ![w].newpr = IF fixes = <<>> THEN 0
                                           ELSE Len(prs) + 1,
                              ![w].wrote = TRUE,
                              ![w].pc = "an_save"]
                  /\ UNCHANGED done
             ELSE /\ analyses' = SetFields(analyses, wk[w].job.aid,
                        [analyses[wk[w].job.aid] EXCEPT !.status = "failed"])
                  /\ Return(w, [wk[w] EXCEPT !.wrote = TRUE], FALSE, "failed")
                  /\ UNCHANGED prs
    /\ UNCHANGED <<patterns, feedback, queue, ncommands, calls, models>>

\* Step 8: save the findings and the PR number; the fixes are not saved
AnalysisSave(w) ==
    /\ wk[w].kind = "analysis"
    /\ wk[w].pc = "an_save"
    /\ analyses' = SetFields(analyses, wk[w].job.aid,
          AnalysisResultFields(analyses[wk[w].job.aid], wk[w].vulns, wk[w].newpr))
    /\ Return(w, wk[w], TRUE, "completed")
    /\ UNCHANGED <<prs, patterns, feedback, queue, ncommands, calls, models>>

----------------------------------------------------------------------------
(* What people and the host do to the PRs the system published *)

\* Somebody closes the PR without merging it
HumanClose(p) ==
    /\ p \in 1..Len(prs)
    /\ prs[p].author = "bot"
    /\ prs[p].state = "open"
    /\ prs' = [prs EXCEPT ![p].state = "closed"]
    /\ UNCHANGED <<analyses, patterns, feedback, queue, ncommands, wk, done, calls, models>>

----------------------------------------------------------------------------
(* The workflow *)

PRNumbers == 1..Len(prs)

Next ==
    \/ \E c \in Commits : Trigger(c)
    \/ \E w \in Workers, p \in PRNumbers, u \in Users : CommentApprove(w, p, u)
    \/ \E w \in Workers, p \in PRNumbers, u \in Users, t \in Texts :
          CommentDeny(w, p, u, t)
    \/ \E w \in Workers, j \in DOMAIN queue : TakeJob(w, j)
    \/ \E w \in Workers : ApproveFind(w)
    \/ \E w \in Workers : ApproveGetPR(w)
    \/ \E w \in Workers : ApproveMerge(w)
    \/ \E w \in Workers : ApproveUpdate(w)
    \/ \E w \in Workers : ApproveStore(w)
    \/ \E w \in Workers : ApproveFeedback(w)
    \/ \E w \in Workers : DenyFind(w)
    \/ \E w \in Workers : DenyUpdate(w)
    \/ \E w \in Workers : DenyFeedback(w)
    \/ \E w \in Workers : RegenInsert(w)
    \/ \E w \in Workers : RegenCreatePR(w)
    \/ \E w \in Workers : RegenUpdate(w)
    \/ \E w \in Workers : AnalysisRun(w)
    \/ \E w \in Workers : AnalysisSave(w)
    \/ \E p \in PRNumbers : HumanClose(p)

Spec == Init /\ [][Next]_vars

----------------------------------------------------------------------------
(* The workflow with calls that raise: the "except Exception" handler of
   handle_approve and handle_deny *)

\* The handler of both methods: log, return internal_error; no comment
Raise(w) ==
    /\ Return(w, wk[w], FALSE, "internal_error")
    /\ UNCHANGED <<analyses, prs, patterns, feedback, queue, ncommands, calls, models>>

\* Step 3 of handle_approve: get_pull_request raises (the host is unreachable)
ApproveGetPRFails(w) ==
    /\ wk[w].kind = "approve"
    /\ wk[w].pc = "get_pr"
    /\ Raise(w)

\* Step 6 of handle_approve: db.analyses.update_one raises after the merge
ApproveUpdateFails(w) ==
    /\ wk[w].kind = "approve"
    /\ wk[w].pc = "update"
    /\ Raise(w)

\* Step 5 of handle_deny: db.analyses.update_one raises
DenyUpdateFails(w) ==
    /\ wk[w].kind = "deny"
    /\ wk[w].pc = "deny_update"
    /\ Raise(w)

FaultNext ==
    \/ Next
    \/ \E w \in Workers : ApproveGetPRFails(w)
    \/ \E w \in Workers : ApproveUpdateFails(w)
    \/ \E w \in Workers : DenyUpdateFails(w)

FaultSpec == Init /\ [][FaultNext]_vars

----------------------------------------------------------------------------
(* Denial and regeneration when step 6 or step 7 of handle_deny fails *)

\* Step 6 fails: submit_feedback raises, the inner handler logs it; step 7
\* and the return follow, the caller enqueues the regeneration
DenySubmitFails(w) ==
    /\ wk[w].kind = "deny"
    /\ wk[w].pc = "deny_feedback"
    /\ prs' = AddComment(prs, wk[w].job.pr, "feedback_received")
    /\ queue' = Enqueue(queue,
          Job("regen", wk[w].job.pr, "", wk[w].job.text,
              wk[w].doc.id, NextIteration(wk[w].doc), ""))
    /\ Return(w, [wk[w] EXCEPT !.enq = @ + 1,
                               !.posted = Append(@, "feedback_received")],
              TRUE, "feedback_received")
    /\ UNCHANGED <<analyses, patterns, feedback, ncommands, calls, models>>

\* Step 7 fails: add_pr_comment raises after step 6; the outer handler
\* returns internal_error and the caller enqueues nothing
DenyCommentFails(w) ==
    /\ wk[w].kind = "deny"
    /\ wk[w].pc = "deny_feedback"
    /\ feedback' = Append(feedback,
          FeedbackRecord(wk[w].doc.id, FALSE, wk[w].job.text))
    /\ analyses' = SetFields(analyses, wk[w].doc.id,
          DispositionFields(analyses[wk[w].doc.id], FALSE, wk[w].job.text))
    /\ models' = UpdateModelWithFeedback(models, feedback', analyses')
    /\ Return(w, wk[w], FALSE, "internal_error")
    /\ UNCHANGED <<prs, patterns, queue, ncommands, calls>>

\* A step of a Celery worker: it takes a queued job or runs the next step
\* of the job it has
DenyJobStep ==
    \/ \E w \in Workers, j \in DOMAIN queue : TakeJob(w, j)
    \/ \E w \in Workers : DenyFind(w)
    \/ \E w \in Workers : DenyUpdate(w)
    \/ \E w \in Workers : DenyFeedback(w)
    \/ \E w \in Workers : DenySubmitFails(w)
    \/ \E w \in Workers : DenyCommentFails(w)
    \/ \E w \in Workers : RegenInsert(w)
    \/ \E w \in Workers : RegenCreatePR(w)
    \/ \E w \in Workers : RegenUpdate(w)
    \/ \E w \in Workers : AnalysisRun(w)
    \/ \E w \in Workers : AnalysisSave(w)

DenyNext ==
    \/ \E c \in Commits : Trigger(c)
    \/ \E w \in Workers, p \in PRNumbers, u \in Users, t \in Texts :
          CommentDeny(w, p, u, t)
    \/ DenyJobStep

\* Workers do not stop: a job that can be taken or continued is
DenyLiveSpec == Init /\ [][DenyNext]_vars /\ WF_vars(DenyJobStep)

----------------------------------------------------------------------------
(* The workflow next to the feedback endpoint, POST /api/v1/feedback *)

ApiFeedbackText == "sent to the endpoint"

\* The endpoint hands the request to FeedbackService.submit_feedback: the
\* Analysis must exist; the FeedbackRecord is inserted and the disposition
\* is copied onto the Analysis
SubmitFeedback(id, approved) ==
    /\ id \in 1..Len(analyses)
    /\ feedback' = Append(feedback,
          FeedbackRecord(id, approved, ApiFeedbackText))
    /\ analyses' = SetFields(analyses, id,
          DispositionFields(analyses[id], approved, ApiFeedbackText))
    /\ UNCHANGED <<prs, patterns, queue, ncommands, wk, done, calls>>

SubmitFeedbackEndpoint(id, approved) ==
    /\ Len(SelectSeq(feedback,
            LAMBDA f : f.feedback_text = ApiFeedbackText)) < MaxApiFeedback
    /\ SubmitFeedback(id, approved)
    /\ models' = UpdateModelWithFeedback(models, feedback', analyses')

\* A request to the endpoint that arrives while no job runs
SubmitFeedbackBetweenJobs(id, approved) ==
    /\ \A w \in Workers : wk[w].kind = "idle"
    /\ SubmitFeedbackEndpoint(id, approved)

ApiNext ==
    \/ Next
    \/ \E id \in 1..Len(analyses), approved \in BOOLEAN :
          SubmitFeedbackBetweenJobs(id, approved)

ApiSpec == Init /\ [][ApiNext]_vars

----------------------------------------------------------------------------
(* Triggers: the push webhook and POST /api/v1/analysis/trigger.  A request
   of the endpoint that is between its lookup and its insert occupies a slot
   of wk like a job does. *)

\* The "exists" answers the endpoint has given
ExistsAnswers ==
    {o \in DOMAIN done : o.job.kind = "manual" /\ o.reason = "exists"}

RECURSIVE CountAll(_, _)
CountAll(b, S) ==
    IF S = {} THEN 0
    ELSE LET e == CHOOSE x \in S : TRUE
         IN  b[e] + CountAll(b, S \ {e})

\* Trigger requests received so far
Requests ==
    Len(analyses) + Cardinality({w \in Workers : wk[w].kind = "manual"})
        + CountAll(done, ExistsAnswers)

\* AnalysisService.trigger_analysis: insert the pending Analysis under a
\* fresh id, queue run_security_analysis
InsertAndQueue(c) ==
    LET id == Len(analyses) + 1
    IN  /\ analyses' = Append(analyses,
              [NoAnalysis EXCEPT !.id = id, !.commit_sha = c,
                                 !.status = "pending"])
        /\ queue' = Enqueue(queue, Job("analysis", 0, "", "", id, 1, c))

\* Webhook, push to the main branch: trigger_analysis, no lookup
PushWebhook(c) ==
    /\ Requests < MaxRequests
    /\ InsertAndQueue(c)
    /\ UNCHANGED <<prs, patterns, feedback, ncommands, wk, done, calls, models>>

\* The endpoint: find_one on (repo_full_name, commit_sha)
ManualFind(w, c) ==
    /\ Requests < MaxRequests
    /\ FreeWorker(w)
    /\ LET hits == {i \in 1..Len(analyses) : analyses[i].commit_sha = c}
       IN  wk' = [wk EXCEPT ![w] =
                    [IdleWorker EXCEPT
                       !.kind = "manual", !.pc = "manual_trigger",
                       !.job = Job("manual", 0, "", "", 0, 0, c),
                       !.existing =
                          IF hits = {} THEN 0
                          ELSE CHOOSE i \in hits : \A j \in hits : i <= j]]
    /\ UNCHANGED <<analyses, prs, patterns, feedback, queue, ncommands, done,
                   calls, models>>

\* The endpoint: answer "exists" with the id found, or trigger_analysis
ManualTrigger(w) ==
    /\ wk[w].kind = "manual"
    /\ wk[w].pc = "manual_trigger"
    /\ IF wk[w].existing # 0
       THEN /\ Return(w, [wk[w] EXCEPT !.newid = wk[w].existing],
                      TRUE, "exists")
            /\ UNCHANGED <<analyses, queue>>
       ELSE /\ InsertAndQueue(wk[w].job.commit)
            /\ Return(w, [wk[w] EXCEPT !.newid = Len(analyses) + 1,
                                       !.wrote = TRUE, !.enq = 1],
                      TRUE, "triggered")
    /\ UNCHANGED <<prs, patterns, feedback, ncommands, calls, models>>

TriggerNext ==
    \/ \E c \in Commits : PushWebhook(c)
    \/ \E w \in Workers, c \in Commits : ManualFind(w, c)
    \/ \E w \in Workers : ManualTrigger(w)
    \/ \E w \in Workers, j \in DOMAIN queue : TakeJob(w, j)
    \/ \E w \in Workers : AnalysisRun(w)
    \/ \E w \in Workers : AnalysisSave(w)

TriggerSpec == Init /\ [][TriggerNext]_vars

----------------------------------------------------------------------------
(* The guidance model under a stream of feedback on one Analysis *)

\* The push that creates the Analysis the feedback is about
FirstPush(c) ==
    /\ Len(analyses) = 0
    /\ PushWebhook(c)

\* POST /api/v1/feedback, with the retraining at its end
SubmitFeedbackAndRetrain(id, approved) ==
    /\ Len(feedback) < MaxFeedback
    /\ SubmitFeedback(id, approved)
    /\ models' = UpdateModelWithFeedback(models, feedback', analyses')

\* The same request when a dump of _save_model fails
SubmitFeedbackSaveFails(id, approved) ==
    /\ Len(feedback) < MaxFeedback
    /\ Len(feedback) + 1 >= MIN_FEEDBACK
    /\ SubmitFeedback(id, approved)
    /\ LET rows == TrainingRows(feedback', analyses')
       IN  models' \in SaveModelFailing(models, Fit(rows), Fit(rows))

\* The records predict is asked about: the stored ones and an empty one
PredictInputs == Range(analyses) \cup {NoAnalysis}

\* A caller makes an RLService (which loads the pickles) and asks it for the
\* approval probability of a record
Predict(w, a) ==
    /\ \A v \in Workers : wk[v].kind = "idle"
    /\ FreeWorker(w)
    /\ \E o \in PredictApprovalProbability(LoadOrInitializeModel(models), a) :
          wk' = [wk EXCEPT ![w] =
                   [IdleWorker EXCEPT !.kind = "predict", !.pc = "predicted",
                                      !.doc = a, !.prediction = o]]
    /\ UNCHANGED <<analyses, prs, patterns, feedback, queue, ncommands, done,
                   calls, models>>

\* The caller is done with the probability
PredictReturn(w) ==
    /\ wk[w].kind = "predict"
    /\ wk' = [wk EXCEPT ![w] = IdleWorker]
    /\ UNCHANGED <<analyses, prs, patterns, feedback, queue, ncommands, done,
                   calls, models>>

RLNext ==
    \/ \E c \in Commits : FirstPush(c)
    \/ \E id \in 1..Len(analyses), approved \in BOOLEAN :
          SubmitFeedbackAndRetrain(id, approved)
    \/ \E w \in Workers, a \in PredictInputs : Predict(w, a)
    \/ \E w \in Workers : PredictReturn(w)

RLSpec == Init /\ [][RLNext]_vars

RLFaultNext ==
    \/ RLNext
    \/ \E id \in 1..Len(analyses), approved \in BOOLEAN :
          SubmitFeedbackSaveFails(id, approved)

RLFaultSpec == Init /\ [][RLFaultNext]_vars

----------------------------------------------------------------------------
(* Retraining and loading, one file operation at a time *)

\* The labels of the stream of requests: approvals and denials alternate
\* until the record before the threshold, any label after it
StreamLabels(n) ==
    IF n + 1 < MIN_FEEDBACK THEN {n % 2 = 0} ELSE BOOLEAN

\* POST /api/v1/feedback up to the fit of update_model_with_feedback: below
\* MIN_FEEDBACK records the request ends, otherwise scaler and classifier
\* are fit on all rows and _save_model is about to run
SubmitFeedbackAndFit(w, id, approved) ==
    /\ Len(feedback) < MaxFeedback
    /\ FreeWorker(w)
    /\ approved \in StreamLabels(Len(feedback))
    /\ id \in 1..Len(analyses)
    /\ feedback' = Append(feedback,
          FeedbackRecord(id, approved, ApiFeedbackText))
    /\ analyses' = SetFields(analyses, id,
          DispositionFields(analyses[id], approved, ApiFeedbackText))
    /\ LET rows == TrainingRows(feedback', analyses')
       IN  wk' = IF Len(feedback') < MIN_FEEDBACK THEN wk
                 ELSE [wk EXCEPT ![w] =
                         [IdleWorker EXCEPT
                            !.kind = "retrain", !.pc = "dump_model",
                            !.rl = [model |-> Fit(rows),
                                    scaler |-> Fit(rows)]]]
    /\ UNCHANGED <<prs, patterns, queue, ncommands, done, calls, models>>

\* _save_model, first with block: pickle.dump(self.model) to rl_model.pkl
DumpModel(w) ==
    /\ wk[w].kind = "retrain"
    /\ wk[w].pc = "dump_model"
    /\ models' = [models EXCEPT !.rl_model = Stored(wk[w].rl.model)]
    /\ wk' = [wk EXCEPT ![w].pc = "dump_scaler"]
    /\ UNCHANGED <<analyses, prs, patterns, feedback, queue, ncommands, done,
                   calls>>

\* _save_model, second with block: pickle.dump(self.scaler) to scaler.pkl
DumpScaler(w) ==
    /\ wk[w].kind = "retrain"
    /\ wk[w].pc = "dump_scaler"
    /\ models' = [models EXCEPT !.scaler = Stored(wk[w].rl.scaler)]
    /\ wk' = [wk EXCEPT ![w] = IdleWorker]
    /\ UNCHANGED <<analyses, prs, patterns, feedback, queue, ncommands, done,
                   calls>>

\* RLService() of a reader, _load_or_initialize_model up to the first load:
\* a new pair when rl_model.pkl is missing or does not unpickle, otherwise
\* the classifier of rl_model.pkl
LoadModel(w) ==
    /\ FreeWorker(w)
    /\ wk' = [wk EXCEPT ![w] =
                IF models.rl_model.state = "stored"
                THEN [IdleWorker EXCEPT
                        !.kind = "reader", !.pc = "load_scaler",
                        !.rl = [model |-> models.rl_model.content,
                                scaler |-> NewEstimator]]
                ELSE [IdleWorker EXCEPT !.kind = "reader", !.pc = "loaded"]]
    /\ UNCHANGED <<analyses, prs, patterns, feedback, queue, ncommands, done,
                   calls, models>>

\* The second load: the scaler of scaler.pkl, or (the except branch) a new
\* pair when scaler.pkl is missing or does not unpickle
LoadScaler(w) ==
    /\ wk[w].kind = "reader"
    /\ wk[w].pc = "load_scaler"
    /\ wk' = [wk EXCEPT ![w].pc = "loaded",
                        ![w].rl =
                           IF models.scaler.state = "stored"
                           THEN [@ EXCEPT !.scaler = models.scaler.content]
                           ELSE NewRLService]
    /\ UNCHANGED <<analyses, prs, patterns, feedback, queue, ncommands, done,
                   calls, models>>

\* The reader predicts with the pair it loaded and is done
ReaderPredict(w) ==
    /\ wk[w].kind = "reader"
    /\ wk[w].pc = "loaded"
    /\ \E o \in PredictApprovalProbability(wk[w].rl, analyses[1]) :
          wk' = [wk EXCEPT ![w].prediction = o, ![w].pc = "predicted"]
    /\ UNCHANGED <<analyses, prs, patterns, feedback, queue, ncommands, done,
                   calls, models>>

ReaderReturn(w) ==
    /\ wk[w].kind = "reader"
    /\ wk[w].pc = "predicted"
    /\ wk' = [wk EXCEPT ![w] = IdleWorker]
    /\ UNCHANGED <<analyses, prs, patterns, feedback, queue, ncommands, done,
                   calls, models>>

RaceNext ==
    \/ \E c \in Commits : FirstPush(c)
    \/ \E w \in Workers, id \in 1..Len(analyses), approved \in BOOLEAN :
          SubmitFeedbackAndFit(w, id, approved)
    \/ \E w \in Workers : DumpModel(w)
    \/ \E w \in Workers : DumpScaler(w)
    \/ \E w \in Workers : LoadModel(w)
    \/ \E w \in Workers : LoadScaler(w)
    \/ \E w \in Workers : ReaderPredict(w)
    \/ \E w \in Workers : ReaderReturn(w)

RaceSpec == Init /\ [][RaceNext]_vars

----------------------------------------------------------------------------
(* The Feedback Extractor called on its own *)

\* Step 4 of handle_deny: the extraction for the text of the command
Extract(w, text, reply) ==
    /\ \A v \in Workers : wk[v].kind = "idle"
    /\ FreeWorker(w)
    /\ wk' = [wk EXCEPT ![w] =
                [IdleWorker EXCEPT
                   !.kind = "extract", !.pc = "extracted",
                   !.job = Job("deny", 0, "", text, 0, 0, ""),
                   !.reply = reply,
                   !.features = ExtractFeedbackFeatures(text, reply)]]
    /\ UNCHANGED <<analyses, prs, patterns, feedback, queue, ncommands, done,
                   calls, models>>

\* The caller goes on with the features
ExtractReturn(w) ==
    /\ wk[w].kind = "extract"
    /\ wk' = [wk EXCEPT ![w] = IdleWorker]
    /\ UNCHANGED <<analyses, prs, patterns, feedback, queue, ncommands, done,
                   calls, models>>

FeedbackTexts ==
    UNION {[1..n -> Words] : n \in 0..MaxWords}

ExtractNext ==
    \/ \E w \in Workers, text \in FeedbackTexts, reply \in Replies :
          Extract(w, text, reply)
    \/ \E w \in Workers : ExtractReturn(w)

ExtractSpec == Init /\ [][ExtractNext]_vars

----------------------------------------------------------------------------
(* Analysis Orchestrator: AgentOrchestrator.analyze and the graph it runs *)

\* What an agent's analyze does in a run: it raises, or it returns findings
AgentRaises == [raises |-> TRUE, findings |-> <<>>]
AgentReturns(findings) == [raises |-> FALSE, findings |-> findings]

Risk1 == [package_name |-> "requests", risk_level |-> "high"]

\* VulnerabilityAgent.analyze: a list of Vulnerability documents, or an error
VulnerabilityAgentOutcomes ==
    {AgentRaises, AgentReturns(<<>>), AgentReturns(<<V1>>),
     AgentReturns(<<V1, V2>>)}

\* DependencyAgent.analyze: the dumped DependencyRisk models, or the error
\* of the Analyst call raised again
DependencyAgentOutcomes ==
    {AgentRaises, AgentReturns(<<>>), AgentReturns(<<Risk1>>)}

NoSummary ==
    [header |-> "", vuln_count |-> 0, severity_counts |-> <<>>,
     dep_count |-> 0]

\* initial_state of analyze
InitialState ==
    [vulnerabilities |-> <<>>, dependency_risks |-> <<>>,
     agent_analyses |-> <<>>, debate_transcript |-> <<>>,
     summary |-> NoSummary, errors |-> <<>>]

TranscriptEntry(agent, action) == [agent |-> agent, action |-> action]

\* A vulnerability node whose except branch leaves errors alone
RunVulnerabilityAnalysisSilent(st, o) ==
    IF o.raises
    THEN [st EXCEPT !.debate_transcript =
              Append(@, TranscriptEntry("VulnerabilityAgent", "error"))]
    ELSE [st EXCEPT
            !.vulnerabilities = o.findings,
            !.agent_analyses = Append(@, "VulnerabilityAgent"),
            !.debate_transcript =
               Append(@, TranscriptEntry("VulnerabilityAgent",
                                         "analysis_complete"))]

\* _run_vulnerability_analysis
RunVulnerabilityAnalysis(st, o) ==
    IF o.raises
    THEN [st EXCEPT
            !.errors = Append(@, "VulnerabilityAgent"),
            !.debate_transcript =
               Append(@, TranscriptEntry("VulnerabilityAgent", "error"))]
    ELSE [st EXCEPT
            !.vulnerabilities = o.findings,
            !.agent_analyses = Append(@, "VulnerabilityAgent"),
            !.debate_transcript =
               Append(@, TranscriptEntry("VulnerabilityAgent",
                                         "analysis_complete"))]

\* _run_dependency_analysis
RunDependencyAnalysis(st, o) ==
    IF o.raises
    THEN [st EXCEPT
            !.errors = Append(@, "DependencyAgent"),
            !.debate_transcript =
               Append(@, TranscriptEntry("DependencyAgent", "error"))]
    ELSE [st EXCEPT
            !.dependency_risks = o.findings,
            !.agent_analyses = Append(@, "DependencyAgent"),
            !.debate_transcript =
               Append(@, TranscriptEntry("DependencyAgent",
                                         "analysis_complete"))]

\* The summary of _aggregate_results: the header, the vulnerabilities with
\* their count per severity, the dependency risks
SummaryOf(vulns, deps) ==
    LET sevs == {vulns[k].severity : k \in 1..Len(vulns)}
    IN  [header |-> "Security Analysis Complete.",
         vuln_count |-> Len(vulns),
         severity_counts |->
            [sev \in sevs |->
               Cardinality({k \in 1..Len(vulns) : vulns[k].severity = sev})],
         dep_count |-> Len(deps)]

\* _aggregate_results
AggregateResults(st) ==
    [st EXCEPT
       !.summary = SummaryOf(st.vulnerabilities, st.dependency_risks),
       !.debate_transcript =
          Append(@, TranscriptEntry("Orchestrator", "aggregation_complete"))]

\* _build_graph: the entry point and the edges
EntryPoint == "vulnerability_analysis"

NextNode(node) ==
    CASE node = "vulnerability_analysis" -> "dependency_analysis"
      [] node = "dependency_analysis" -> "aggregate_results"
      [] node = "aggregate_results" -> "END"

\* analyze is called: the initial state enters the graph
Analyze(w, va, da) ==
    /\ FreeWorker(w)
    /\ wk' = [wk EXCEPT ![w] =
                [IdleWorker EXCEPT
                   !.kind = "orchestrate", !.pc = EntryPoint,
                   !.agents = [vulnerability |-> va, dependency |-> da],
                   !.state = InitialState]]
    /\ UNCHANGED <<analyses, prs, patterns, feedback, queue, ncommands, done,
                   calls, models>>

VulnerabilityAnalysisNode(w) ==
    /\ wk[w].kind = "orchestrate"
    /\ wk[w].pc = "vulnerability_analysis"
    /\ wk' = [wk EXCEPT
                ![w].state = RunVulnerabilityAnalysis(
                                wk[w].state, wk[w].agents.vulnerability),
                ![w].pc = NextNode(wk[w].pc)]
    /\ UNCHANGED <<analyses, prs, patterns, feedback, queue, ncommands, done,
                   calls, models>>

DependencyAnalysisNode(w) ==
    /\ wk[w].kind = "orchestrate"
    /\ wk[w].pc = "dependency_analysis"
    /\ wk' = [wk EXCEPT
                ![w].state = RunDependencyAnalysis(
                                wk[w].state, wk[w].agents.dependency),
                ![w].pc = NextNode(wk[w].pc)]
    /\ UNCHANGED <<analyses, prs, patterns, feedback, queue, ncommands, done,
                   calls, models>>

AggregateResultsNode(w) ==
    /\ wk[w].kind = "orchestrate"
    /\ wk[w].pc = "aggregate_results"
    /\ wk' = [wk EXCEPT ![w].state = AggregateResults(wk[w].state),
                        ![w].pc = NextNode(wk[w].pc)]
    /\ UNCHANGED <<analyses, prs, patterns, feedback, queue, ncommands, done,
                   calls, models>>

\* analyze hands the final state to its caller
AnalyzeReturn(w) ==
    /\ wk[w].kind = "orchestrate"
    /\ wk[w].pc = "END"
    /\ wk' = [wk EXCEPT ![w] = IdleWorker]
    /\ UNCHANGED <<analyses, prs, patterns, feedback, queue, ncommands, done,
                   calls, models>>

OrchestratorNext ==
    \/ \E w \in Workers, va \in VulnerabilityAgentOutcomes,
          da \in DependencyAgentOutcomes : Analyze(w, va, da)
    \/ \E w \in Workers : VulnerabilityAnalysisNode(w)
    \/ \E w \in Workers : DependencyAnalysisNode(w)
    \/ \E w \in Workers : AggregateResultsNode(w)
    \/ \E w \in Workers : AnalyzeReturn(w)

OrchestratorSpec == Init /\ [][OrchestratorNext]_vars

----------------------------------------------------------------------------
(* BaseAgent._extract_findings: the findings of a reply of the Analyst *)

\* A stripped line of the reply: the prefix it starts with ("" for a line
\* that starts with none of the seven) and the stripped rest
Line(prefix, rest) == [prefix |-> prefix, rest |-> rest]

ReplyLines ==
    {Line("FILE:", "a.py"), Line("FILE:", "b.py"), Line("LINE:", "10"),
     Line("LINE:", "ten"), Line("SEVERITY:", "High"), Line("TYPE:", "XSS"),
     Line("", "note")}

MaxLines == 3

Responses == UNION {[1..n -> ReplyLines] : n \in 0..MaxLines}

\* int(...) of the rest of a LINE: line: the number, or ValueError
IsNumber(rest) == rest = "10"
IntOf(rest) == IF rest = "10" THEN 10 ELSE 0

\* .lower() of the rest of a SEVERITY: line
LowerSeverity(rest) == IF rest = "High" THEN "high" ELSE rest

\* A finding is a dict: here a function from its keys to its values
NoFinding == <<>>
WithKey(finding, key, value) ==
    [k \in DOMAIN finding \cup {key} |->
        IF k = key THEN value ELSE finding[k]]

\* The state of the loop: the findings so far, current_finding, and whether
\* int() has raised
LoopStart == [findings |-> <<>>, current |-> NoFinding, raised |-> FALSE]

\* One pass of the loop body for a line
LoopBody(st, line, finding_type) ==
    IF st.raised THEN st
    ELSE CASE line.prefix = "FILE:" ->
                [st EXCEPT
                   !.findings = IF st.current # NoFinding
                                THEN Append(@, st.current) ELSE @,
                   !.current = WithKey(WithKey(NoFinding, "type", finding_type),
                                       "file_path", line.rest)]
           [] line.prefix = "LINE:" ->
                IF IsNumber(line.rest)
                THEN [st EXCEPT !.current =
                         WithKey(@, "line_number", IntOf(line.rest))]
                ELSE [st EXCEPT !.raised = TRUE]
           [] line.prefix = "SEVERITY:" ->
                [st EXCEPT !.current =
                    WithKey(@, "severity", LowerSeverity(line.rest))]
           [] line.prefix = "TYPE:" ->
                [st EXCEPT !.current = WithKey(@, "type", line.rest)]
           [] line.prefix = "DESCRIPTION:" ->
                [st EXCEPT !.current = WithKey(@, "description", line.rest)]
           [] line.prefix = "CWE:" ->
                [st EXCEPT !.current = WithKey(@, "cwe_id", line.rest)]
           [] line.prefix = "FIX:" ->
                [st EXCEPT !.current =
                    WithKey(@, "recommended_fix", line.rest)]
           [] OTHER -> st

RECURSIVE Loop(_, _, _)
Loop(st, lines, finding_type) ==
    IF lines = <<>> THEN st
    ELSE Loop(LoopBody(st, Head(lines), finding_type), Tail(lines),
              finding_type)

\* _extract_findings: the loop, then the last finding when it has a
\* file_path; ValueError from int() leaves the method
ExtractFindings(response, finding_type) ==
    LET st == Loop(LoopStart, response, finding_type)
    IN  IF st.raised THEN [raised |-> TRUE, findings |-> <<>>]
        ELSE [raised |-> FALSE,
              findings |->
                 IF st.current # NoFinding /\ "file_path" \in DOMAIN st.current
                 THEN Append(st.findings, st.current)
                 ELSE st.findings]

\* An agent parses the reply it got
ExtractFindingsCall(w, response) ==
    /\ \A v \in Workers : wk[v].kind = "idle"
    /\ FreeWorker(w)
    /\ wk' = [wk EXCEPT ![w] =
                [IdleWorker EXCEPT
                   !.kind = "findings", !.pc = "extracted",
                   !.reply = response,
                   !.state = ExtractFindings(response, "vulnerability")]]
    /\ UNCHANGED <<analyses, prs, patterns, feedback, queue, ncommands, done,
                   calls, models>>

\* The agent goes on with the findings
ExtractFindingsReturn(w) ==
    /\ wk[w].kind = "findings"
    /\ wk' = [wk EXCEPT ![w] = IdleWorker]
    /\ UNCHANGED <<analyses, prs, patterns, feedback, queue, ncommands, done,
                   calls, models>>

FindingsNext ==
    \/ \E w \in Workers, response \in Responses :
          ExtractFindingsCall(w, response)
    \/ \E w \in Workers : ExtractFindingsReturn(w)

FindingsSpec == Init /\ [][FindingsNext]_vars

----------------------------------------------------------------------------
(* Properties of the Pattern Store *)

Signatures == {SigOfArgs(a) : a \in StoreInputs}
PatternsWithSig(sig) ==
    {i \in 1..Len(patterns) : SigOfPattern(patterns[i]) = sig}
CallsWithSig(sig) ==
    SelectSeq(calls, LAMBDA c : SigOfArgs(c.args) = sig)

\* C5: store calls made one after another with one signature leave exactly
\* one FixPattern of that signature, whose success_count is the number of the
\* calls, whose contributor list holds the analysis id of every call in call
\* order, and whose id every one of the calls returned.
C5_SequentialStoresAccumulate ==
    \A sig \in Signatures :
        LET cs == CallsWithSig(sig)
            ps == PatternsWithSig(sig)
        IN  IF Len(cs) = 0
            THEN ps = {}
            ELSE /\ Cardinality(ps) = 1
                 /\ \A i \in ps :
                      /\ patterns[i].success_count = Len(cs)
                      /\ patterns[i].analysis_ids =
                            [k \in 1..Len(cs) |-> cs[k].args.analysis_id]
                      /\ \A k \in 1..Len(cs) : cs[k].ret = patterns[i].id

\* C5 witness: two finished calls with one signature but different analysis
\* ids, severities and paths, and the pattern counts 2.
C5_Witness ==
    \E i \in 1..Len(patterns) :
        /\ patterns[i].success_count = 2
        /\ patterns[i].analysis_ids = <<1, 2>>
        /\ \E k, l \in 1..Len(calls) :
              /\ k < l
              /\ calls[k].ret = calls[l].ret
              /\ calls[k].args.severity # calls[l].args.severity
              /\ calls[k].args.file_path # calls[l].args.file_path

\* C6: in every reachable state, also when store calls of concurrently
\* running jobs interleave, the Pattern Store holds at most one FixPattern per
\* signature (vulnerability type, file extension, fix description).
C6_AtMostOnePatternPerSignature ==
    \A sig \in Signatures : Cardinality(PatternsWithSig(sig)) <= 1

----------------------------------------------------------------------------
(* Properties of the workflow *)

\* The reasons with which a guard of handle_approve or handle_deny fails
GuardFailureReasons ==
    {"unauthorized", "analysis_not_found", "already_closed", "has_conflicts",
     "merge_failed"}

Children(i) ==
    {j \in 1..Len(analyses) : analyses[j].parent_analysis_id = i}

\* C1: in every reachable state every Analysis has iteration_number in 1..3,
\* and every Analysis that has a parent has the iteration_number of its
\* parent plus one.
C1_IterationNumbers ==
    \A i \in 1..Len(analyses) :
        /\ analyses[i].iteration_number \in 1..3
        /\ analyses[i].parent_analysis_id # 0 =>
              analyses[i].iteration_number =
                  analyses[analyses[i].parent_analysis_id].iteration_number + 1

\* C1 witness: a chain of three Analyses, iterations 1, 2 and 3.
C1_Witness ==
    \E i \in 1..Len(analyses) :
        /\ analyses[i].iteration_number = 3
        /\ analyses[i].parent_analysis_id # 0
        /\ LET parent == analyses[analyses[i].parent_analysis_id]
           IN  /\ parent.iteration_number = 2
               /\ parent.parent_analysis_id # 0
               /\ analyses[parent.parent_analysis_id].iteration_number = 1

C3_AuthorizationFirst ==
    /\ \A o \in DOMAIN done :
          o.job.kind \in {"approve", "deny"} =>
              IF o.job.user \in Collaborators
              THEN o.trail # <<>> /\ o.trail[1] = "authorized"
              ELSE /\ o.reason = "unauthorized"
                   /\ ~o.success
                   /\ o.trail = <<>>
                   /\ o.analysis_id = 0
    /\ \A w \in Workers :
          (wk[w].kind \in {"approve", "deny"} /\ wk[w].pc # "find") =>
              /\ wk[w].job.user \in Collaborators
              /\ wk[w].trail[1] = "authorized"

\* C3 witness: an actor who is not a collaborator has approved a PR that is
\* merged and has denied a PR, and both jobs have returned.
C3_Witness ==
    /\ \E o \in DOMAIN done :
          /\ o.job.kind = "approve"
          /\ o.job.user \notin Collaborators
          /\ prs[o.job.pr].merged
    /\ \E o \in DOMAIN done :
          /\ o.job.kind = "deny"
          /\ o.job.user \notin Collaborators

\* C4: a step merges a PR only as the merge of an approve job for that PR
\* that has found, in this order, the actor authorized, the Analysis of the
\* PR, the PR neither merged nor closed, and no conflicts; no other step
\* merges a PR.
C4_MergeOnlyAfterGuards ==
    [][ /\ \A p \in 1..Len(prs) :
             (prs'[p].merged /\ ~prs[p].merged) =>
                 \E w \in Workers :
                     /\ wk[w].kind = "approve"
                     /\ wk[w].job.pr = p
                     /\ wk[w].job.user \in Collaborators
                     /\ wk[w].doc.id # 0
                     /\ wk[w].doc.pr_number = p
                     /\ wk[w].trail = <<"authorized", "analysis_found",
                                        "not_merged_not_closed", "no_conflicts">>
                     /\ prs[p].state = "open"
                     /\ prs'[p].merged_by = "system"
                     /\ wk'[w].trail = Append(wk[w].trail, "merged")
        /\ \A p \in (Len(prs) + 1)..Len(prs') : ~prs'[p].merged ]_vars

\* C4 witness: a PR is merged, and denial and regeneration have run too.
C4_Witness ==
    /\ \E p \in 1..Len(prs) : prs[p].merged /\ prs[p].merged_by = "system"
    /\ \E o \in DOMAIN done : o.reason = "regenerated"

\* C7: however often the denial of a PR is processed, at most one child
\* Analysis with that parent is created and at most one replacement PR is
\* published for it.
C7_AtMostOneChildPerParent ==
    \A i \in 1..Len(analyses) : Cardinality(Children(i)) <= 1

\* The finished approve jobs for PR p that returned with the reason
ApproveOutcomes(p, reason) ==
    {o \in DOMAIN done :
        o.job.kind = "approve" /\ o.job.pr = p /\ o.reason = reason}

\* C8: for any number of approve jobs for one PR, interleaved or not, the PR
\* is merged at most once, at most one job returns merged, only that job has
\* raised counters of the Pattern Store, and a job that saw the PR already
\* merged returns success with reason already_merged having changed no
\* Analysis, pattern or FeedbackRecord.
C8_ApproveAtMostOnce ==
    \A p \in 1..Len(prs) :
        /\ prs[p].merges <= 1
        /\ Cardinality(ApproveOutcomes(p, "merged")) <= 1
        /\ \A o \in ApproveOutcomes(p, "merged") : done[o] = 1
        /\ \A o \in DOMAIN done :
              (o.job.kind = "approve" /\ o.job.pr = p /\ o.reason # "merged")
              => o.pattern_ids = <<>>
        /\ \A o \in ApproveOutcomes(p, "already_merged") :
              /\ o.success
              /\ ~o.wrote
              /\ o.pattern_ids = <<>>
              /\ o.enq = 0
              /\ o.merge_sha = 0

\* C8 witness: three approve jobs for one PR have returned, one with merged
\* and one with already_merged.
C8_Witness ==
    \E p \in 1..Len(prs) :
        /\ prs[p].merges = 1
        /\ ApproveOutcomes(p, "merged") # {}
        /\ ApproveOutcomes(p, "already_merged") # {}
        /\ ApproveOutcomes(p, "merge_failed") # {}

\* C9: whenever handle_approve has returned merged for an Analysis, the
\* Analysis is marked merged and approved with the merge SHA, a positive
\* FeedbackRecord for it exists, and for every vulnerability of the Analysis
\* that the merged patch fixed the Pattern Store holds a pattern of that
\* vulnerability type to which the Analysis contributed.
C9_MergedOutcomeRecordsEverything ==
    \A o \in DOMAIN done :
        o.reason = "merged" =>
            LET a == analyses[o.analysis_id]
                patch == prs[o.job.pr].fixes
            IN  /\ a.merged
                /\ a.merge_sha = o.merge_sha
                /\ a.approved_by = o.job.user
                /\ \E k \in 1..Len(feedback) :
                      feedback[k].analysis_id = a.id /\ feedback[k].approved
                /\ \A n \in 1..Len(a.vulnerabilities) :
                      (\E k \in 1..Len(patch) :
                          /\ patch[k].file_path = a.vulnerabilities[n].file_path
                          /\ a.vulnerabilities[n].type \in
                                Range(patch[k].vulnerabilities_fixed))
                      => \E i \in 1..Len(patterns) :
                            /\ patterns[i].vulnerability_type =
                                  a.vulnerabilities[n].type
                            /\ a.id \in Range(patterns[i].analysis_ids)

\* C10: a step in which handle_approve or handle_deny returns unauthorized,
\* analysis_not_found, already_closed, has_conflicts or merge_failed leaves
\* the analyses, the Pattern Store, the FeedbackRecords and the job queue as
\* they were, and the returning job has written nothing before and enqueued
\* nothing: its only effect is the one comment.
C10_GuardFailuresChangeNothing ==
    [][ \A o \in DOMAIN done' :
            (/\ o.reason \in GuardFailureReasons
             /\ BagCount(done', o) > BagCount(done, o))
            => /\ analyses' = analyses
               /\ patterns' = patterns
               /\ feedback' = feedback
               /\ queue' = queue
               /\ ~o.wrote
               /\ o.enq = 0
               /\ o.pattern_ids = <<>>
               /\ o.newid = 0
               /\ o.posted = <<o.reason>> ]_vars

\* C10 witness: with a denial on record, an approve job has returned
\* merge_failed and a deny job has returned unauthorized.
C10_Witness ==
    /\ feedback # <<>>
    /\ \E o \in DOMAIN done :
          o.job.kind = "approve" /\ o.reason = "merge_failed"
    /\ \E o \in DOMAIN done :
          o.job.kind = "deny" /\ o.reason = "unauthorized"

C12_EveryOutcomeCommented ==
    \A o \in DOMAIN done :
        o.job.kind \in {"approve", "deny"} =>
            /\ o.posted # <<>>
            /\ o.merge_sha # 0 => "merged" \in prs[o.job.pr].comments

\* C13: the disposition of an Analysis (user_approved, approved_by,
\* denied_by) changes only in a step of an approve or deny job that has
\* passed the authorization and the existence guard for that Analysis.
C13_DispositionOnlyInController ==
    [][ \A i \in 1..Len(analyses) :
            (\/ analyses'[i].user_approved # analyses[i].user_approved
             \/ analyses'[i].approved_by # analyses[i].approved_by
             \/ analyses'[i].denied_by # analyses[i].denied_by)
            => \E w \in Workers :
                  /\ wk[w].kind \in {"approve", "deny"}
                  /\ wk[w].authorized
                  /\ wk[w].doc.id = i ]_vars

\* C14: a second trigger for a commit, through the endpoint or the push
\* webhook, after or concurrently with the first, inserts no second Analysis
\* for the commit and enqueues no second analysis job: the triggered
\* Analyses of a commit are at most one.
C14_OneAnalysisPerCommit ==
    \A i, j \in 1..Len(analyses) :
        (/\ analyses[i].parent_analysis_id = 0
         /\ analyses[j].parent_analysis_id = 0
         /\ analyses[i].commit_sha = analyses[j].commit_sha)
        => i = j

\* The stored patterns of a query that a returned list leaves out
LeftOut(w) ==
    {i \in Matching(patterns, wk[w].args.vulnerability_type,
                    FileExtension(wk[w].args.file_path),
                    wk[w].args.severity) :
        \A k \in 1..Len(wk[w].similar) :
            wk[w].similar[k].pattern_id # patterns[i].id}

\* C15: get_similar_patterns returns at most limit patterns, each of the
\* requested type and extension (and severity when one is given), in
\* non-increasing success_count order, and no stored matching pattern that is
\* left out has a higher success_count than a returned one.
C15_RetrieveRanksBySuccess ==
    \A w \in Workers :
        wk[w].kind = "retrieve" =>
            LET r == wk[w].similar
                q == wk[w].args
            IN  /\ Len(r) <= wk[w].i
                /\ \A k \in 1..Len(r) :
                      /\ r[k].vulnerability_type = q.vulnerability_type
                      /\ r[k].file_extension = FileExtension(q.file_path)
                      /\ (q.severity # "" => r[k].severity = q.severity)
                /\ \A k, l \in 1..Len(r) :
                      k < l => r[k].success_count >= r[l].success_count
                /\ \A i \in LeftOut(w), k \in 1..Len(r) :
                      patterns[i].success_count <= r[k].success_count

\* A full list was returned and a matching pattern with a lower count was
\* left out
C15_Witness ==
    \E w \in Workers :
        /\ wk[w].kind = "retrieve"
        /\ Len(wk[w].similar) = wk[w].i
        /\ \E i \in LeftOut(w) :
              patterns[i].success_count < wk[w].similar[1].success_count

\* C16: predict_approval_probability never raises and returns a value in
\* [0, 1] for every analysis record, the empty one included; when no fit
\* classifier is loaded (rl_model.pkl missing, or either pickle missing or
\* unreadable) it returns exactly 0.5.
C16_PredictTotal ==
    [][\A w \in Workers :
          wk'[w].kind = "predict" /\ wk[w].kind # "predict" =>
             LET o == wk'[w].prediction
             IN  /\ ~o.raised
                 /\ o.value \in 0..100
                 /\ (\/ models.rl_model.state # "stored"
                     \/ models.scaler.state # "stored"
                     \/ ~models.rl_model.content.fitted)
                    => o.value = 50]_vars

\* A prediction made while the classifier is stored and the scaler file is
\* unreadable
C16_Witness ==
    \E w \in Workers :
        /\ wk[w].kind = "predict"
        /\ models.rl_model.state = "stored"
        /\ models.scaler.state = "unreadable"

WithoutFences(lines) == SelectSeq(lines, LAMBDA l : ~IsFence(l))

C19_SixFieldsAlways ==
    \A w \in Workers :
        wk[w].kind = "extract" =>
            /\ wk[w].features.type = "object"
            /\ {"identified_issues", "requested_changes",
                "false_positive_flags", "breaking_change_concerns",
                "sentiment", "specificity_score"}
                  \subseteq DOMAIN wk[w].features.obj
            /\ wk[w].features.obj.sentiment
                  \in {"negative", "neutral", "positive"}
            /\ wk[w].features.obj.specificity_score \in 0..100

C21_DenialEndToEnd ==
    \A o \in DOMAIN done :
        (/\ o.job.kind = "regen"
         /\ o.success
         /\ o.job.iter = 2
         /\ o.job.text = "breaks production api"
         /\ Len(analyses[o.job.aid].vulnerabilities) = 2)
        => LET A1 == analyses[o.job.aid]
               A2 == analyses[o.newid]
           IN  /\ FeatureOr(A1.feedback_features,
                            "breaking_change_concerns", FALSE)
               /\ "Previous fix caused breaking changes"
                      \in Range(o.guidance.risk_factors)
               /\ A2.iteration_number = 2
               /\ A2.parent_analysis_id = o.job.aid
               /\ A2.fixes # <<>>
               /\ A2.pr_number \in 1..Len(prs)
               /\ A2.pr_number # o.job.pr
               /\ "superseded" \in prs[o.job.pr].comments

\* C22: each denial that handle_deny accepts (outcome feedback_received)
\* appends its text as the new last element of the denial-reason history of
\* the Analysis, leaving the earlier entries in place and in order, and sets
\* the disposition to denied with the extracted features stored; no step
\* shrinks a history or removes an entry from it.
C22_DenialHistoryAppendOnly ==
    [][ /\ \A i \in 1..Len(analyses) :
             /\ Len(analyses'[i].denial_reasons) >=
                    Len(analyses[i].denial_reasons)
             /\ SubSeq(analyses'[i].denial_reasons, 1,
                       Len(analyses[i].denial_reasons)) =
                    analyses[i].denial_reasons
             /\ Len(analyses'[i].denial_reasons) >
                    Len(analyses[i].denial_reasons)
                => \E w \in Workers :
                      /\ wk[w].kind = "deny"
                      /\ wk[w].pc = "deny_update"
                      /\ wk[w].doc.id = i
        /\ \A i \in (Len(analyses) + 1)..Len(analyses') :
             analyses'[i].denial_reasons = <<>>
        /\ \A w \in Workers :
             (/\ wk[w].kind = "deny"
              /\ wk[w].pc = "deny_update"
              /\ wk'[w] # wk[w])
             => LET i == wk[w].doc.id
                IN  /\ wk[w].trail =
                          <<"authorized", "analysis_found", "below_cap">>
                    /\ analyses'[i].denial_reasons =
                          Append(analyses[i].denial_reasons, wk[w].job.text)
                    /\ analyses'[i].user_approved = "false"
                    /\ analyses'[i].denied_by = wk[w].job.user
                    /\ analyses'[i].feedback_features = wk[w].features
                    /\ wk[w].features \in ExtractResults(wk[w].job.text)
        /\ \A o \in DOMAIN done' :
             (/\ o.job.kind = "deny"
              /\ o.reason = "feedback_received"
              /\ BagCount(done', o) > BagCount(done, o))
             => /\ o.wrote
                /\ o.job.text \in Range(analyses[o.analysis_id].denial_reasons)
                /\ analyses'[o.analysis_id].denial_reasons =
                      analyses[o.analysis_id].denial_reasons
                /\ analyses'[o.analysis_id].user_approved = "false"
                /\ analyses'[o.analysis_id].feedback_features.type = "object" ]_vars

\* C22 witness: two denials of one Analysis were accepted and its history
\* holds both texts.
C22_Witness ==
    \E o \in DOMAIN done :
        /\ o.job.kind = "deny"
        /\ o.reason = "feedback_received"
        /\ BagCount(done, o) >= 2
        /\ Len(analyses[o.analysis_id].denial_reasons) >= 2
        /\ analyses[o.analysis_id].user_approved = "false"

\* C23: every Analysis created by regeneration has as parent the denied
\* Analysis, with the same commit and findings, and its prior-patch list is
\* the parent's list followed by the number of the denied PR; hence every
\* prior-patch list has length iteration_number - 1 and holds the PR numbers
\* of the ancestors, oldest first.
C23_RegeneratedAnalysisLineage ==
    \A i \in 1..Len(analyses) :
        LET c == analyses[i]
        IN  /\ Len(c.previous_pr_numbers) = c.iteration_number - 1
            /\ c.parent_analysis_id = 0 => c.previous_pr_numbers = <<>>
            /\ c.parent_analysis_id # 0 =>
                 LET p == analyses[c.parent_analysis_id]
                 IN  /\ c.parent_analysis_id \in 1..(i - 1)
                     /\ c.rl_guidance_applied
                     /\ p.denial_reasons # <<>>
                     /\ p.pr_number \in 1..Len(prs)
                     /\ c.commit_sha = p.commit_sha
                     /\ c.vulnerabilities = p.vulnerabilities
                     /\ c.iteration_number = p.iteration_number + 1
                     /\ c.previous_pr_numbers =
                           Append(p.previous_pr_numbers, p.pr_number)
            /\ \A k \in 1..Len(c.previous_pr_numbers) :
                 \E j \in 1..(i - 1) :
                     /\ analyses[j].iteration_number = k
                     /\ analyses[j].pr_number = c.previous_pr_numbers[k]
                     /\ analyses[j].commit_sha = c.commit_sha

\* C23 witness: an Analysis of iteration 3 whose prior-patch list holds the
\* two different PR numbers of its grandparent and its parent.
C23_Witness ==
    \E i \in 1..Len(analyses) :
        /\ analyses[i].iteration_number = 3
        /\ Len(analyses[i].previous_pr_numbers) = 2
        /\ analyses[i].previous_pr_numbers[1] #
              analyses[i].previous_pr_numbers[2]
        /\ analyses[i].vulnerabilities # <<>>

\* C24: under any interleaving of retrain runs with each other and with
\* readers, a reader never uses a classifier and a scaler written by
\* different retrain runs: the pair it predicts with is one complete
\* persisted version (both fit on the same rows) or the new, unfit pair.
C24_ReaderSeesOneVersion ==
    \A w \in Workers :
        (wk[w].kind = "reader" /\ wk[w].pc \in {"loaded", "predicted"})
        => wk[w].rl.model = wk[w].rl.scaler

\* C25 as stated: the keyword fallback sets breaking_change_concerns true
\* exactly when the lower-cased text contains at least one of "breaking",
\* "breaks", "production", "critical", and false otherwise.
C25_FourBreakingKeywords ==
    \A w \in Workers :
        (wk[w].kind = "extract" /\ wk[w].reply = Failed)
        => (wk[w].features.obj.breaking_change_concerns
              <=> KeywordsOf(wk[w].job.text)
                     \cap {"breaking", "breaks", "production", "critical"}
                  # {})

\* C25 amended: the keyword fallback sets breaking_change_concerns true
\* exactly when the lower-cased text contains at least one of "breaking",
\* "breaks", "break", "production", "critical", that is when it contains
\* "break", "production" or "critical", and false otherwise.
C25_FiveBreakingKeywords ==
    \A w \in Workers :
        (wk[w].kind = "extract" /\ wk[w].reply = Failed)
        => /\ wk[w].features = FallbackFeatureExtraction(wk[w].job.text)
           /\ wk[w].features.obj.breaking_change_concerns
                <=> KeywordsOf(wk[w].job.text)
                       \cap {"break", "production", "critical"} # {}

\* C25 witness: the fallback has set the flag for a text whose only keyword
\* of the list is "break".
C25_Witness ==
    \E w \in Workers :
        /\ wk[w].kind = "extract" /\ wk[w].reply = Failed
        /\ wk[w].job.text = <<"good", "break">>
        /\ wk[w].features.obj.breaking_change_concerns
        /\ wk[w].features.obj.sentiment = "positive"

\* The positions of the FILE: lines of a reply, in order
FileLines(response) ==
    SelectSeq([k \in 1..Len(response) |-> k],
              LAMBDA k : response[k].prefix = "FILE:")

\* The last line with the prefix between the k-th FILE: line and the next
LastBetween(response, k, prefix) ==
    LET at == FileLines(response)
        to == IF k < Len(at) THEN at[k + 1] - 1 ELSE Len(response)
        hits == {j \in (at[k] + 1)..to : response[j].prefix = prefix}
    IN  IF hits = {} THEN 0 ELSE CHOOSE j \in hits : \A i \in hits : i <= j

\* C26: _extract_findings returns exactly one finding for each FILE: line of
\* the reply, in order, each with the path of that line and the LINE,
\* SEVERITY and TYPE values of the lines between it and the next FILE: line
\* (the others run through the same branch as TYPE); every
\* finding it returns has a file_path, whatever the order of the lines.
C26_OneFindingPerFileLine ==
    \A w \in Workers :
        wk[w].kind = "findings" =>
            LET at == FileLines(wk[w].reply)
                found == wk[w].state.findings
            IN  /\ ~wk[w].state.raised
                /\ Len(found) = Len(at)
                /\ \A k \in 1..Len(found) :
                     "file_path" \in DOMAIN found[k]
                /\ \A k \in 1..Len(found) :
                     LET ln == LastBetween(wk[w].reply, k, "LINE:")
                         sv == LastBetween(wk[w].reply, k, "SEVERITY:")
                         tp == LastBetween(wk[w].reply, k, "TYPE:")
                     IN  /\ found[k].file_path = wk[w].reply[at[k]].rest
                         /\ ln # 0 => found[k].line_number =
                                         IntOf(wk[w].reply[ln].rest)
                         /\ sv # 0 => found[k].severity =
                                         LowerSeverity(wk[w].reply[sv].rest)
                         /\ found[k].type =
                               IF tp # 0 THEN wk[w].reply[tp].rest
                               ELSE "vulnerability"

\* C27: approval is terminal: a deny job that finds its Analysis approved
\* and merged neither changes the disposition of the Analysis (it stays
\* approved) nor enqueues a regeneration job.
C27_ApprovalIsTerminal ==
    [][ \A w \in Workers :
          (/\ wk[w].kind = "deny"
           /\ wk[w].authorized
           /\ wk[w].doc.id # 0
           /\ wk[w].doc.merged
           /\ wk[w].doc.user_approved = "true"
           /\ wk'[w] # wk[w])
          => /\ analyses'[wk[w].doc.id].user_approved = "true"
             /\ analyses'[wk[w].doc.id].denial_reasons =
                   analyses[wk[w].doc.id].denial_reasons
             /\ queue' = queue ]_vars

\* The first Analysis of the chain the Analysis i belongs to
RECURSIVE RootOf(_)
RootOf(i) ==
    IF analyses[i].parent_analysis_id = 0 THEN i
    ELSE RootOf(analyses[i].parent_analysis_id)

\* The PRs published for the Analyses of the chain of the PR p
ChainPRs(p) ==
    {analyses[j].pr_number :
        j \in {j \in 1..Len(analyses) :
                 \E i \in 1..Len(analyses) :
                     /\ analyses[i].pr_number = p
                     /\ RootOf(i) = RootOf(j)}}

\* C28: per chain of Analyses at most one of the chain's PRs is ever merged
\* by the approve path, and once a denied PR is superseded an /approve on it
\* no longer merges it.
C28_OneMergePerChain ==
    [][ \A p \in 1..Len(prs) :
          (prs'[p].merged /\ ~prs[p].merged)
          => /\ "superseded" \notin prs[p].comments
             /\ \A q \in ChainPRs(p) \ {0, p} : ~prs[q].merged ]_vars

\* A regeneration job for the Analysis i is queued, runs or has run
RegenerationEnqueued(i) ==
    \/ \E j \in DOMAIN queue : j.kind = "regen" /\ j.aid = i
    \/ \E w \in Workers : wk[w].kind = "regen" /\ wk[w].job.aid = i
    \/ \E o \in DOMAIN done : o.job.kind = "regen" /\ o.job.aid = i

\* C29: whenever handle_deny has persisted a denial of an Analysis below the
\* cap, a regeneration job with that Analysis as parent is eventually
\* enqueued, also when a later step of the same invocation (the
\* FeedbackRecord, the acknowledgement comment) fails; stated for the first
\* Analysis.
C29_PersistedDenialIsRegenerated ==
    (Len(analyses) >= 1 /\ analyses[1].denial_reasons # <<>>)
        ~> RegenerationEnqueued(1)

\* C30: every job that produces an Analysis, the initial analysis job and
\* the regeneration job, has left its Analysis completed or failed when it
\* has run to its end; none is left pending or in_progress, in particular
\* not a regenerated Analysis whose fix generation or PR creation failed.
C30_JobsLeaveFinalStatus ==
    \A o \in DOMAIN done :
        /\ o.job.kind = "analysis" =>
              analyses[o.job.aid].status \in {"completed", "failed"}
        /\ (o.job.kind = "regen" /\ o.newid # 0) =>
              analyses[o.newid].status \in {"completed", "failed"}

====
